---- MODULE Spec2Model ----
(***************************************************************************)
(* Trading-Dashboard backend: price simulation engine (TickerModel),       *)
(* subscription and broadcast layer (MarketDataService, WebSocketService)  *)
(* and alert evaluation engine (AlertsService), as one state machine.      *)
(*                                                                         *)
(* Units.  Prices are integers in cents.  A result of Math.random() is an  *)
(* integer r in 0..9999 standing for r / 10^4.  volatility is in 1e-3,     *)
(* trend in 1e-2.  Ticker.change is in 1e-4 cents and changePercent in     *)
(* 1e-2 percent (rounded down), so that the values the constructor leaves  *)
(* in them are exact.  Timestamps are readings of a logical clock; candle  *)
(* timestamps are minutes relative to midnight of the reference day.       *)
(* All arithmetic stays below 2^31.                                        *)
(***************************************************************************)
EXTENDS Integers, Sequences, FiniteSets, TLC

VARIABLES
    heartbeat,        \* per server-side socket: its isAlive field, and whether a ping is unanswered
    reader,           \* the Ticker a caller of getTicker kept, and what it read then
    alertListeners,   \* the listeners of 'alert-triggered', in registration order
    cache,            \* CacheService.cache with the time Date.now() returns
    client,           \* the browser's WebSocketService (api.service.ts)
    configs,          \* the TICKER_CONFIGS rows the engines are built from
    tickers,          \* TickerModel.currentPrices of the served engine
    seed,             \* the Math.random() outcomes the constructor consumed
    clock,            \* logical time (new Date())
    updateInterval,   \* number of live setInterval drivers of the engine
    isMarketOpen,     \* MarketDataService.isMarketOpen
    updateFrequency,  \* MarketDataService.updateFrequency (ms)
    subscribers,      \* MarketDataService.subscribers : symbol -> set of sockets
    clients,          \* WebSocketService.clients : socket -> set of symbols
    readyState,       \* ws.readyState of every socket
    alerts,           \* AlertsService.alerts : userId -> sequence of PriceAlert
    alertIdCounter,   \* AlertsService.alertIdCounter
    outbox,           \* ws.send calls made by the last handler, in order
    trace,            \* calls and emissions made by the last handler, in order
    fired,            \* alert id -> number of 'alert-triggered' events so far
    lastOp,           \* the handler that ran last, with its arguments
    observed,         \* call name -> symbol -> the prices it was given so far
    routeTickers      \* currentPrices of the engine alerts.routes.ts constructs

vars == << heartbeat, reader, alertListeners, cache, client, configs, tickers, seed, clock, updateInterval, isMarketOpen, updateFrequency,
           subscribers, clients, readyState, alerts, alertIdCounter,
           outbox, trace, fired, lastOp, observed, routeTickers >>

engineVars == << tickers, seed, routeTickers, clock >>
driverVars == << updateInterval, isMarketOpen, updateFrequency >>
socketVars == << subscribers, clients, readyState >>
alertVars  == << alerts, alertIdCounter, fired >>

----------------------------------------------------------------------------
(* Bounds of the model *)

MaxTicks == 2       \* timer callbacks explored
MaxAlerts == 2      \* alerts ever created
MaxBatch == 2       \* symbols in one subscribe or unsubscribe message
MaxTime == 4    \* steps of Date.now() explored after start-up
MaxWire == 1        \* client messages in flight on one socket

----------------------------------------------------------------------------
(* Instrument registry: ticker.model.ts TICKER_CONFIGS (two of its rows) *)

TICKER_CONFIGS ==
    ( "AAPL" :> [ basePrice |-> 18000, volatility |-> 15, trend |-> 10,
                  minPrice |-> 15000, maxPrice |-> 22000, baseVolume |-> 75000000 ] )
 @@ ( "MSFT" :> [ basePrice |-> 38000, volatility |-> 12, trend |-> 12,
                  minPrice |-> 34000, maxPrice |-> 43000, baseVolume |-> 30000000 ] )

Symbols == DOMAIN TICKER_CONFIGS

Scale == 10000 * 1000   \* denominator of currentPrice * changePercent (1e-4 * 1e-3)

Max(a, b) == IF a >= b THEN a ELSE b
Min(a, b) == IF a <= b THEN a ELSE b

(* parseFloat(x.toFixed(2)) of the non-negative amount whole + num/den cents *)
ToFixed2(whole, num, den) == IF 2 * num >= den THEN whole + 1 ELSE whole

(* generateNextPrice(currentPrice, config) with its two Math.random() results *)
generateNextPrice(currentPrice, config, r1, r2) ==
    LET momentum == ((r1 - 5000) * 3) \div 10
        noise == (r2 - 5000) \div 10
        trendComponent == config.trend
        changePercent == (momentum + noise + trendComponent) * config.volatility
        change == currentPrice * changePercent
        \* newPrice = whole + frac / Scale
        whole == currentPrice + (change \div Scale)
        frac == change % Scale
        \* deviation = (newPrice - basePrice) / basePrice, compared with 0.2
        d5 == 5 * (whole - config.basePrice)
        over == \/ d5 > config.basePrice
                \/ /\ config.basePrice - d5 \in 0..4
                   /\ 5 * frac > (config.basePrice - d5) * Scale
        under == \/ (0 - config.basePrice) - d5 >= 5
                 \/ /\ (0 - config.basePrice) - d5 \in 1..4
                    /\ 5 * frac < ((0 - config.basePrice) - d5) * Scale
        \* newPrice - deviation * basePrice * 0.05
        \*   = basePrice + (newPrice - basePrice) * 0.95
        a == (whole - config.basePrice) * 95
        r == (a % 100) * Scale + frac * 95
        den == 100 * Scale
        reverted == over \/ under
        w2 == IF reverted THEN config.basePrice + (a \div 100) + (r \div den)
                          ELSE whole
        n2 == IF reverted THEN r % den ELSE frac * 100
    \* Math.max(minPrice, Math.min(maxPrice, newPrice)): the cap first
    IN  IF w2 >= config.maxPrice THEN Max(config.minPrice, config.maxPrice)
        ELSE IF w2 < config.minPrice THEN config.minPrice
        ELSE ToFixed2(w2, n2, den)

----------------------------------------------------------------------------
(* Engine construction: new TickerModel() *)

(* Math.random() results are drawn from multiples of 10 (1e-3 steps) *)
RandomDraws == {0, 5000, 9990}

(* The outcomes of the constructor's Math.random() calls: momentum draws of
   the even and of the odd candles, and one value for each other use. *)
Seeds ==
    { [ m0 |-> 5000, m1 |-> 5000, n |-> 5000, w |-> 5000, v |-> 5000, p |-> 5000 ],
      [ m0 |-> 0,    m1 |-> 0,    n |-> 0,    w |-> 0,    v |-> 0,    p |-> 0 ],
      [ m0 |-> 9990, m1 |-> 9990, n |-> 9990, w |-> 9990, v |-> 9990, p |-> 9990 ],
      [ m0 |-> 0,    m1 |-> 9990, n |-> 5000, w |-> 9990, v |-> 0,    p |-> 9990 ] }

DaysBack == 30          \* for (let day = 30; day > 1; day--)
CandlesPerDay == 2      \* for (let hour = 0; hour < 7; hour += 4)
CandlesToday == 26      \* for (let minutes = 0; minutes < 390; minutes += 15)
DailyCandles == (DaysBack - 1) * CandlesPerDay
HistoryLength == DailyCandles + CandlesToday

(* candleTime of the k-th generated point, in minutes from today's midnight *)
CandleTime(k) ==
    IF k <= DailyCandles
    THEN LET day == DaysBack - ((k - 1) \div CandlesPerDay)
             hour == 4 * ((k - 1) % CandlesPerDay)
         IN  (0 - day) * 1440 + (9 + hour) * 60 + 30
    ELSE 9 * 60 + 30 + 15 * (k - DailyCandles - 1)

(* a candle whose high is computed from the smaller of open and close *)
CandleWickInside(k, open, config, sd) ==
    LET close == generateNextPrice(open, config,
                                   IF k % 2 = 0 THEN sd.m0 ELSE sd.m1, sd.n)
    IN  [ timestamp |-> CandleTime(k), open |-> open, high |-> Min(open, close),
          low |-> Min(open, close), close |-> close, volume |-> config.baseVolume \div 10 ]

(* One iteration of either loop of generateHistoricalData: the point pushed
   for candle k when currentPrice is open. *)
Candle(k, open, config, sd) ==
    LET intraday == k > DailyCandles
        close == generateNextPrice(open, config,
                                   IF k % 2 = 0 THEN sd.m0 ELSE sd.m1, sd.n)
        top == Max(open, close)
        bottom == Min(open, close)
        \* r * dailyVolatility * 0.5, or r * intraVolatility with 0.3 * volatility
        den == IF intraday THEN 10000000 ELSE 2000000
        upNum == top * config.volatility * (sd.w \div 10) * (IF intraday THEN 3 ELSE 1)
        dnNum == bottom * config.volatility * (sd.w \div 10) * (IF intraday THEN 3 ELSE 1)
        high == ToFixed2(top + (upNum \div den), upNum % den, den)
        low == IF dnNum % den = 0
               THEN bottom - (dnNum \div den)
               ELSE ToFixed2(bottom - (dnNum \div den) - 1, den - (dnNum % den), den)
        volume == IF intraday
                  THEN (config.baseVolume \div 10) + (config.baseVolume \div 100000) * 2 * sd.v
                  ELSE (config.baseVolume \div 10) * 3 + (config.baseVolume \div 100000) * 4 * sd.v
    IN  [ timestamp |-> CandleTime(k), open |-> open, high |-> high, low |-> low,
          close |-> close, volume |-> volume ]

(* loops in which every candle opens at the base price *)
RECURSIVE historyLoopFromBase(_, _, _, _)
historyLoopFromBase(config, sd, history, currentPrice) ==
    IF Len(history) >= HistoryLength THEN history
    ELSE LET point == Candle(Len(history) + 1, config.basePrice, config, sd)
         IN  historyLoopFromBase(config, sd, Append(history, point), point.close)

(* generateHistoricalData: the two loops over one config, history holding
   the points pushed so far and currentPrice the last close *)
RECURSIVE historyLoop(_, _, _, _)
historyLoop(config, sd, history, currentPrice) ==
    IF Len(history) >= HistoryLength /\ currentPrice > 0 THEN history
    ELSE LET point == Candle(Len(history) + 1, currentPrice, config, sd)
         IN  historyLoop(config, sd, Append(history, point), point.close)

generateHistoricalData(config, sd) == historyLoop(config, sd, << >>, config.basePrice)

(* TickerModel.historicalData, fixed by the constructor *)
historicalData(symbol) ==
    generateHistoricalData(configs[symbol], seed)

SetMax(S) == CHOOSE x \in S : \A y \in S : x >= y
SetMin(S) == CHOOSE x \in S : \A y \in S : x <= y

(* initializeTickers: the ticker of one config *)
initializeTickers(config, sd, now) ==
    [ price |-> config.basePrice,
      \* basePrice * (1 - r * 0.02), to the cent below; generateHistoricalData
      \* overwrites it before anything reads it again
      previousClose |-> config.basePrice - (config.basePrice * 2 * (sd.p \div 10)) \div 100000,
      \* price - previousClose = basePrice * r * 0.02
      change |-> (config.basePrice \div 100) * 2 * sd.p,
      changePercent |-> (20000 * sd.p) \div (1000000 - 2 * sd.p),
      volume |-> (config.baseVolume \div 10) * 8 + (config.baseVolume \div 100000) * 4 * sd.v,
      high |-> config.basePrice + config.basePrice \div 100,
      low |-> config.basePrice - config.basePrice \div 100,
      timestamp |-> now ]

(* new TickerModel(): initializeTickers, then generateHistoricalData, which
   overwrites price, previousClose, high and low of each ticker *)
TickerModel(config, sd, now) ==
    LET history == generateHistoricalData(config, sd)
        last == { history[i] : i \in (HistoryLength - 25)..HistoryLength }
        ticker == initializeTickers(config, sd, now)
    IN  [ ticker EXCEPT
            !.price = history[HistoryLength].close,
            !.previousClose = history[HistoryLength - 1].close,
            !.high = SetMax({ h.high : h \in last }),
            !.low = SetMin({ h.low : h \in last }) ]

(* an update that moves the price and leaves the day's range as it was *)
updateOutsideRange(ticker, config, r1, r2, r3, now) ==
    [ ticker EXCEPT
        !.price = generateNextPrice(ticker.price, config, r1, r2),
        !.volume = ticker.volume + r3 * 10 + 50000,
        !.timestamp = now ]

(* TickerModel.updatePrice(symbol) for a known symbol, with its three
   Math.random() results; the same object is updated and returned *)
updatePrice(ticker, config, r1, r2, r3, now) ==
    LET newPrice == generateNextPrice(ticker.price, config, r1, r2)
    IN  [ ticker EXCEPT
            !.price = newPrice,
            !.change = (newPrice - ticker.previousClose) * 10000,
            !.changePercent = ((newPrice - ticker.previousClose) * 10000) \div ticker.previousClose,
            !.high = Max(ticker.high, newPrice),
            !.low = Min(ticker.low, newPrice),
            !.volume = ticker.volume + r3 * 10 + 50000,
            !.timestamp = now ]

----------------------------------------------------------------------------
(* Sockets, users and messages *)

Conns == {"c1", "c2"}
ConnOrder == << "c1", "c2" >>          \* iteration order of socket sets
SymbolOrder == << "AAPL", "MSFT" >>    \* insertion order of currentPrices
Users == {"1", "2"}                    \* two of the mockUsers ids of auth.routes.ts
UserOrder == << "1", "2" >>            \* iteration order of AlertsService.alerts
UnknownSymbol == "INVALID"
SymbolNames == Symbols \cup {UnknownSymbol}

NoTime == 0 - 1                        \* triggeredAt undefined
Skip == << >>      \* Math.random() > 0.2 failed: the ticker is not updated

Msg(to, type, symbol, price, alert, results) ==
    [ to |-> to, type |-> type, symbol |-> symbol, price |-> price,
      alert |-> alert, results |-> results ]

Call(name, symbol, price, alert) ==
    [ call |-> name, symbol |-> symbol, price |-> price, alert |-> alert ]

(* ws.send(data) on a server-side socket: queued when OPEN, dropped otherwise;
   the call itself is recorded either way *)
Open(ws) == readyState[ws] = "OPEN"

(* a WebSocket object as 'connection' hands it over: isAlive is not set, no
   ping is on its way *)
NewSocket == [ isAlive |-> "undefined", ping |-> FALSE ]

(* wss.clients: the sockets the server still holds *)
wssClients == { ws \in Conns : readyState[ws] # "NONE" }

RECURSIVE SeqOf(_, _)
SeqOf(order, S) ==
    IF order = << >> THEN << >>
    ELSE IF Head(order) \in S THEN << Head(order) >> \o SeqOf(Tail(order), S)
    ELSE SeqOf(Tail(order), S)

----------------------------------------------------------------------------
(* AlertsService *)

(* an emitter nobody listens to *)
NoListeners == << >>

(* server.ts: the listeners registered on each emitter, in order *)
PriceUpdateListeners == << "checkAlerts" >>
AlertTriggeredListeners == << "broadcastAlert" >>

(* thresholds a user sets: under the first rise of AAPL from its constructed
   price, between the first and the second rise of MSFT *)
TargetPrice == "AAPL" :> 18020 @@ "MSFT" :> 38200
Thresholds(symbol) == { TargetPrice[symbol] }

(* createAlert: the alert object pushed for the user *)
createAlert(id, userId, symbol, type, threshold, now) ==
    [ id |-> id, userId |-> userId, symbol |-> symbol, type |-> type,
      threshold |-> threshold, active |-> TRUE, triggeredAt |-> NoTime,
      createdAt |-> now ]

(* a filter that keeps the active alerts of every symbol *)
RECURSIVE userRefsAnySymbol(_, _, _, _)
userRefsAnySymbol(as, u, symbol, i) ==
    IF i > Len(as[u]) THEN << >>
    ELSE (IF as[u][i].active THEN << << u, i >> >> ELSE << >>)
         \o userRefsAnySymbol(as, u, symbol, i + 1)

(* getSymbolAlerts: references <<user, index>> to the active alerts of symbol *)
RECURSIVE userRefs(_, _, _, _)
userRefs(as, u, symbol, i) ==
    IF i > Len(as[u]) THEN << >>
    ELSE (IF as[u][i].symbol = symbol /\ as[u][i].active THEN << << u, i >> >> ELSE << >>)
         \o userRefs(as, u, symbol, i + 1)

RECURSIVE symbolRefs(_, _, _)
symbolRefs(as, symbol, k) ==
    IF k > Len(UserOrder) THEN << >>
    ELSE userRefs(as, UserOrder[k], symbol, 1) \o symbolRefs(as, symbol, k + 1)

getSymbolAlerts(as, symbol) == symbolRefs(as, symbol, 1)

(* a guard that looks at the active flag alone *)
skipInactive(alert) == ~alert.active

(* a trigger condition that holds at every price *)
triggerAlways(alert, price) == alert.type \in {"above", "below"}

(* checkAlerts: the guard of the loop body, and the trigger condition *)
skipAlert(alert) == ~alert.active \/ alert.triggeredAt # NoTime

shouldTrigger(alert, price) ==
    \/ alert.type = "above" /\ price >= alert.threshold
    \/ alert.type = "below" /\ price <= alert.threshold

(* a firing transition that leaves triggeredAt alone *)
fireWithoutStamp(alert, now) == [ alert EXCEPT !.active = FALSE ]

(* a firing transition that stamps the alert and leaves it active *)
fireStaysActive(alert, now) == [ alert EXCEPT !.triggeredAt = now ]

(* the firing transition of checkAlerts *)
fireAlert(alert, now) == [ alert EXCEPT !.triggeredAt = now, !.active = FALSE ]

(* an alert broadcast that reaches only the OPEN subscribers of the symbol *)
broadcastAlertToSubscribers(st, alert, symbol, price) ==
    LET to == SeqOf(ConnOrder, { ws \in st.subscribers[symbol] : Open(ws) })
    IN  [ st EXCEPT
            !.trace = Append(@, Call("broadcastAlert", symbol, price, alert.id)),
            !.outbox = @ \o [ i \in 1..Len(to) |->
                               Msg(to[i], "alert", symbol, price, alert.id, << >>) ] ]

(* WebSocketService.broadcastAlert(event): one send per OPEN socket of wss.clients *)
broadcastAlert(st, alert, symbol, price) ==
    LET to == SeqOf(ConnOrder, { ws \in wssClients : Open(ws) })
    IN  [ st EXCEPT
            !.trace = Append(@, Call("broadcastAlert", symbol, price, alert.id)),
            !.outbox = @ \o [ i \in 1..Len(to) |->
                               Msg(to[i], "alert", symbol, price, alert.id, << >>) ] ]

RECURSIVE checkAlerts(_, _, _, _)

(* the alert object an event refers to, as it is in the store now *)
alertObject(st, alert) ==
    CHOOSE a \in UNION { { st.alerts[u][i] : i \in 1..Len(st.alerts[u]) } : u \in DOMAIN st.alerts } :
        a.id = alert.id

(* the message of eventData: symbol, type, threshold and price.toFixed(2) *)
eventMessage(alert, symbol, price) == << symbol, alert.type, alert.threshold, price >>

(* a listener that looks at the event it is handed and evaluates the same
   ticker again before it returns *)
reentrantListener(st, alert, symbol, price) ==
    LET seen == alertObject(st, alert)
    IN  checkAlerts(
            [ st EXCEPT !.trace = Append(@,
                [ call |-> "listener", symbol |-> symbol, price |-> price, alert |-> seen.id,
                  active |-> seen.active, triggeredAt |-> seen.triggeredAt,
                  message |-> eventMessage(alert, symbol, price) ]) ],
            symbol, price, seen.triggeredAt)

(* emit('alert-triggered', eventData): every listener, synchronously *)
RECURSIVE emitAlertTriggered(_, _, _, _, _)
emitAlertTriggered(st, listeners, alert, symbol, price) ==
    IF listeners = << >> THEN st
    ELSE emitAlertTriggered(
             IF Head(listeners) = "broadcastAlert"
             THEN broadcastAlert(st, alert, symbol, price)
             ELSE reentrantListener(st, alert, symbol, price),
             Tail(listeners), alert, symbol, price)

(* the for loop of checkAlerts over the alerts getSymbolAlerts returned *)
RECURSIVE checkAlertsLoop(_, _, _, _, _)
checkAlertsLoop(st, refs, symbol, price, now) ==
    IF refs = << >> THEN st
    ELSE LET u == Head(refs)[1]
             i == Head(refs)[2]
             alert == st.alerts[u][i]
         IN  IF skipAlert(alert) \/ ~shouldTrigger(alert, price)
             THEN checkAlertsLoop(st, Tail(refs), symbol, price, now)
             ELSE LET hit == fireAlert(alert, now)
                      st1 == [ st EXCEPT
                                 !.alerts[u][i] = hit,
                                 !.fired[alert.id] = @ + 1,
                                 !.trace = Append(@, Call("alert-triggered", symbol, price, alert.id)) ]
                  IN  checkAlertsLoop(
                          emitAlertTriggered(st1, alertListeners, hit, symbol, price),
                          Tail(refs), symbol, price, now)

(* an evaluation that switches the symbol's alerts on before it looks at them *)
checkPausedToo(st, symbol, price, now) ==
    LET on == [ u \in DOMAIN st.alerts |->
                  [ i \in 1..Len(st.alerts[u]) |->
                      IF st.alerts[u][i].symbol = symbol
                      THEN [ st.alerts[u][i] EXCEPT !.active = TRUE ]
                      ELSE st.alerts[u][i] ] ]
    IN  checkAlertsLoop(
            [ st EXCEPT !.alerts = on,
                        !.trace = Append(@, Call("checkAlerts", symbol, price, 0)) ],
            getSymbolAlerts(on, symbol), symbol, price, now)

checkAlerts(st, symbol, price, now) ==
    checkAlertsLoop(
        [ st EXCEPT !.trace = Append(@, Call("checkAlerts", symbol, price, 0)) ],
        getSymbolAlerts(st.alerts, symbol), symbol, price, now)

----------------------------------------------------------------------------
(* MarketDataService *)

(* a fan-out that a dead connection ends: the subscribers after it in the
   iteration get nothing and nothing is pruned *)
broadcastUntilDead(st, symbol, ticker) ==
    LET subs == st.subscribers[symbol]
        order == SeqOf(ConnOrder, subs)
        dead == { i \in 1..Len(order) : ~Open(order[i]) }
        stop == IF dead = {} THEN Len(order) + 1 ELSE SetMin(dead)
        st1 == [ st EXCEPT !.trace = Append(@, Call("broadcastPriceUpdate", symbol, ticker.price, 0)) ]
    IN  [ st1 EXCEPT
            !.outbox = @ \o [ i \in 1..(stop - 1) |->
                               Msg(order[i], "price_update", symbol, ticker.price, 0, << >>) ] ]

(* a fan-out that sends to the OPEN subscribers and deletes nobody *)
broadcastKeepDead(st, symbol, ticker) ==
    LET to == SeqOf(ConnOrder, { ws \in st.subscribers[symbol] : Open(ws) })
    IN  [ st EXCEPT
            !.trace = Append(@, Call("broadcastPriceUpdate", symbol, ticker.price, 0)),
            !.outbox = @ \o [ i \in 1..Len(to) |->
                               Msg(to[i], "price_update", symbol, ticker.price, 0, << >>) ] ]

(* a fan-out to every OPEN socket the server holds *)
broadcastToAll(st, symbol, ticker) ==
    LET to == SeqOf(ConnOrder, { ws \in wssClients : Open(ws) })
    IN  [ st EXCEPT
            !.trace = Append(@, Call("broadcastPriceUpdate", symbol, ticker.price, 0)),
            !.outbox = @ \o [ i \in 1..Len(to) |->
                               Msg(to[i], "price_update", symbol, ticker.price, 0, << >>) ] ]

(* broadcastPriceUpdate(symbol, ticker): one send per OPEN subscriber, and
   the subscribers found not OPEN are deleted from the symbol's set *)
broadcastPriceUpdate(st, symbol, ticker) ==
    LET subs == st.subscribers[symbol]
        live == { ws \in subs : Open(ws) }
        to == SeqOf(ConnOrder, live)
        st1 == [ st EXCEPT !.trace = Append(@, Call("broadcastPriceUpdate", symbol, ticker.price, 0)) ]
    IN  IF subs = {} THEN st1
        ELSE [ st1 EXCEPT
                 !.outbox = @ \o [ i \in 1..Len(to) |->
                                    Msg(to[i], "price_update", symbol, ticker.price, 0, << >>) ],
                 !.subscribers[symbol] = live ]

(* an emission that hands the listeners the previous close *)
emitPreviousClose(st, listeners, symbol, ticker, now) ==
    IF listeners = << >> THEN st
    ELSE checkAlerts(st, symbol, ticker.previousClose, now)

(* emit('price-update', updated): every listener, synchronously *)
RECURSIVE emitPriceUpdate(_, _, _, _, _)
emitPriceUpdate(st, listeners, symbol, ticker, now) ==
    IF listeners = << >> THEN st
    ELSE emitPriceUpdate(checkAlerts(st, symbol, ticker.price, now),
                         Tail(listeners), symbol, ticker, now)

(* a forEach body that fans out and emits the ticker it did not update *)
updateOneEmitOnSkip(st, symbol, roll, now) ==
    LET updated == IF roll = Skip THEN st.tickers[symbol]
                   ELSE updatePrice(st.tickers[symbol], configs[symbol],
                                    roll[1], roll[2], roll[3], now)
        st1 == IF roll = Skip THEN st
               ELSE [ st EXCEPT
                        !.tickers[symbol] = updated,
                        !.trace = Append(@, Call("updatePrice", symbol, updated.price, 0)) ]
        st2 == broadcastPriceUpdate(st1, symbol, updated)
        st3 == [ st2 EXCEPT !.trace = Append(@, Call("price-update", symbol, updated.price, 0)) ]
    IN  emitPriceUpdate(st3, PriceUpdateListeners, symbol, updated, now)

(* the body of updateAllPrices' forEach for one ticker; roll is "skip" when
   Math.random() > 0.2 fails and the three later Math.random() results otherwise *)
updateOne(st, symbol, roll, now) ==
    IF roll = Skip THEN st
    ELSE LET updated == updatePrice(st.tickers[symbol], configs[symbol],
                                    roll[1], roll[2], roll[3], now)
             st1 == [ st EXCEPT
                        !.tickers[symbol] = updated,
                        !.trace = Append(@, Call("updatePrice", symbol, updated.price, 0)) ]
             st2 == broadcastPriceUpdate(st1, symbol, updated)
             st3 == [ st2 EXCEPT !.trace = Append(@, Call("price-update", symbol, updated.price, 0)) ]
         IN  emitPriceUpdate(st3, PriceUpdateListeners, symbol, updated, now)

RECURSIVE updateAllPrices(_, _, _, _)
updateAllPrices(st, k, rolls, now) ==
    IF k > Len(SymbolOrder) THEN st
    ELSE updateAllPrices(updateOne(st, SymbolOrder[k], rolls[SymbolOrder[k]], now),
                         k + 1, rolls, now)

(* a subscribe that sends nothing *)
subscribeSilently(st, symbol, ws) ==
    IF symbol \notin DOMAIN st.subscribers
    THEN [ st |-> st, ok |-> FALSE ]
    ELSE [ st |-> [ st EXCEPT !.subscribers[symbol] = @ \cup {ws} ], ok |-> TRUE ]

(* a subscribe that counts itself into the ticker's volume *)
subscribeCounting(st, symbol, ws) ==
    IF symbol \notin DOMAIN st.subscribers
    THEN [ st |-> st, ok |-> FALSE ]
    ELSE [ st |-> [ st EXCEPT
                      !.subscribers[symbol] = @ \cup {ws},
                      !.tickers[symbol].volume = @ + 1,
                      !.outbox = Append(@, Msg(ws, "price_update", symbol,
                                               st.tickers[symbol].price, 0, << >>)) ],
           ok |-> TRUE ]

(* subscribe(symbol, ws): [st, ok] *)
subscribe(st, symbol, ws) ==
    IF symbol \notin DOMAIN st.subscribers
    THEN [ st |-> st, ok |-> FALSE ]
    ELSE [ st |-> [ st EXCEPT
                      !.subscribers[symbol] = @ \cup {ws},
                      !.outbox = Append(@, Msg(ws, "price_update", symbol,
                                               st.tickers[symbol].price, 0, << >>)) ],
           ok |-> TRUE ]

(* an unsubscribe that reports and removes nothing *)
unsubscribeReportOnly(st, symbol, ws) ==
    IF symbol \notin DOMAIN st.subscribers
    THEN [ st |-> st, ok |-> FALSE ]
    ELSE [ st |-> st, ok |-> ws \in st.subscribers[symbol] ]

(* unsubscribe(symbol, ws): [st, ok] *)
unsubscribe(st, symbol, ws) ==
    IF symbol \notin DOMAIN st.subscribers
    THEN [ st |-> st, ok |-> FALSE ]
    ELSE [ st |-> [ st EXCEPT !.subscribers[symbol] = @ \ {ws} ],
           ok |-> ws \in st.subscribers[symbol] ]

(* a disconnect that leaves the interest sets as they are *)
unsubscribeNone(st, ws) == st

(* unsubscribeAll(ws) *)
unsubscribeAll(st, ws) ==
    [ st EXCEPT !.subscribers = [ symbol \in DOMAIN @ |-> @[symbol] \ {ws} ] ]

(* setUpdateFrequency: Math.max(1000, Math.min(10000, ms)) *)
(* Numbers that are not integers of the model: NaN, which a non-numeric
   request value becomes when Math.min converts it *)
NaN == 0 - 1000000

(* Math.min and Math.max: NaN when an argument is NaN *)
MathMin(a, b) == IF a = NaN \/ b = NaN THEN NaN ELSE Min(a, b)
MathMax(a, b) == IF a = NaN \/ b = NaN THEN NaN ELSE Max(a, b)

(* Math.max(1000, Math.min(10000, ms)) *)
clampFrequency(ms) == MathMax(1000, MathMin(10000, ms))

(* req.body.updateFrequency of POST /market/control: numbers under, in and
   over the range, and a value that is not a number *)
FrequencyInputs == {500, 1000, 3000, 10000, 15000, NaN}

----------------------------------------------------------------------------
(* WebSocketService *)

(* sendError(ws, message): only when the socket is OPEN *)
sendError(st, ws) ==
    IF Open(ws) THEN [ st EXCEPT !.outbox = Append(@, Msg(ws, "error", "", 0, 0, << >>)) ]
    ELSE st

(* a forEach that gives up at the first symbol subscribe refuses *)
RECURSIVE subscribeUntilRefused(_, _, _, _)
subscribeUntilRefused(st, ws, symbols, results) ==
    IF symbols = << >> THEN [ st |-> st, results |-> results ]
    ELSE LET symbol == Head(symbols)
             r == subscribe(st, symbol, ws)
         IN  IF r.ok
             THEN subscribeUntilRefused([ r.st EXCEPT !.clients[ws] = @ \cup {symbol} ], ws,
                                        Tail(symbols),
                                        Append(results, [ symbol |-> symbol, status |-> "subscribed" ]))
             ELSE [ st |-> r.st,
                    results |-> Append(results, [ symbol |-> symbol, status |-> "failed" ]) ]

(* the forEach of handleSubscribe: [st, results] *)
RECURSIVE subscribeEach(_, _, _, _)
subscribeEach(st, ws, symbols, results) ==
    IF symbols = << >> THEN [ st |-> st, results |-> results ]
    ELSE LET symbol == Head(symbols)
             r == subscribe(st, symbol, ws)
         IN  IF r.ok
             THEN subscribeEach([ r.st EXCEPT !.clients[ws] = @ \cup {symbol} ], ws, Tail(symbols),
                                Append(results, [ symbol |-> symbol, status |-> "subscribed" ]))
             ELSE subscribeEach(r.st, ws, Tail(symbols),
                                Append(results, [ symbol |-> symbol, status |-> "failed" ]))

(* handleSubscribe(ws, message): message.symbols || message.data?.symbols || [] *)
handleSubscribe(st, ws, message) ==
    IF ws \notin DOMAIN st.clients THEN st
    ELSE LET r == subscribeEach(st, ws, message.symbols, << >>)
         IN  [ r.st EXCEPT !.outbox = Append(@, Msg(ws, "subscribe", "", 0, 0, r.results)) ]

(* the forEach of handleUnsubscribe: [st, results] *)
RECURSIVE unsubscribeEach(_, _, _, _)
unsubscribeEach(st, ws, symbols, results) ==
    IF symbols = << >> THEN [ st |-> st, results |-> results ]
    ELSE LET symbol == Head(symbols)
             r == unsubscribe(st, symbol, ws)
         IN  IF r.ok
             THEN unsubscribeEach([ r.st EXCEPT !.clients[ws] = @ \ {symbol} ], ws, Tail(symbols),
                                  Append(results, [ symbol |-> symbol, status |-> "unsubscribed" ]))
             ELSE unsubscribeEach(r.st, ws, Tail(symbols),
                                  Append(results, [ symbol |-> symbol, status |-> "failed" ]))

(* handleUnsubscribe(ws, message): const { symbols } = message; a message that
   carries its list under data has symbols undefined, symbols.forEach throws
   and handleMessage's catch answers with sendError *)
handleUnsubscribe(st, ws, message) ==
    IF ws \notin DOMAIN st.clients THEN st
    ELSE IF message.shape # "top" THEN sendError(st, ws)
    ELSE LET r == unsubscribeEach(st, ws, message.symbols, << >>)
         IN  [ r.st EXCEPT !.outbox = Append(@, Msg(ws, "unsubscribe", "", 0, 0, r.results)) ]

(* handleHeartbeat(ws) *)
handleHeartbeat(st, ws) ==
    [ st EXCEPT !.outbox = Append(@, Msg(ws, "heartbeat", "", 0, 0, << >>)) ]

(* handleMessage(ws, data): the switch on message.type *)
handleMessage(st, ws, message) ==
    CASE message.type = "subscribe" -> handleSubscribe(st, ws, message)
      [] message.type = "unsubscribe" -> handleUnsubscribe(st, ws, message)
      [] message.type = "heartbeat" -> handleHeartbeat(st, ws)
      [] OTHER -> sendError(st, ws)

(* handleDisconnect(ws): unsubscribeAll, then clients.delete(ws) *)
handleDisconnect(st, ws) ==
    LET st1 == unsubscribeAll(st, ws)
    IN  [ st1 EXCEPT !.clients = [ c \in DOMAIN @ \ {ws} |-> @[c] ] ]

----------------------------------------------------------------------------
(* The state machine *)

(* the fields the handlers thread through their calls *)
Current ==
    [ tickers |-> tickers, subscribers |-> subscribers, clients |-> clients,
      alerts |-> alerts, fired |-> fired, outbox |-> << >>, trace |-> << >> ]

(* the prices the calls of one name were given for one symbol, in order *)
RECURSIVE PricesOf(_, _, _)
PricesOf(tr, name, symbol) ==
    IF tr = << >> THEN << >>
    ELSE (IF Head(tr).call = name /\ Head(tr).symbol = symbol
          THEN << Head(tr).price >> ELSE << >>) \o PricesOf(Tail(tr), name, symbol)

(* the engine's updates, their two consumers and the emission between them *)
Stages == { "updatePrice", "broadcastPriceUpdate", "price-update", "checkAlerts" }

Log(history, tr) ==
    [ name \in Stages |->
        [ symbol \in Symbols |-> history[name][symbol] \o PricesOf(tr, name, symbol) ] ]

Commit(st, op) ==
    /\ tickers' = st.tickers
    /\ subscribers' = st.subscribers
    /\ clients' = st.clients
    /\ alerts' = st.alerts
    /\ fired' = st.fired
    /\ outbox' = st.outbox
    /\ trace' = st.trace
    /\ observed' = Log(observed, st.trace)
    /\ lastOp' = op

(* the handler that runs, its socket or user, its argument, and the symbols
   whose interest sets hold the socket when the handler starts *)
Op(name, ws, arg) ==
    [ op |-> name, ws |-> ws, arg |-> arg,
      held |-> { symbol \in Symbols : ws \in subscribers[symbol] } ]

(* The browser's WebSocketService before connect(): no socket, nothing
   remembered.  sockets is the readyState of each WebSocket object the client
   created and whose close event is still to come; wire holds the messages
   sent on a socket and not yet received; resumed is TRUE when the socket
   that opened last was opened by attemptReconnect *)
ClientInit ==
    [ ws |-> "", sockets |-> [ c \in Conns |-> "NONE" ],
      subscribedSymbols |-> << >>, isIntentionallyClosed |-> FALSE,
      reconnectAttempts |-> 0, reconnectTimeout |-> FALSE,
      wire |-> [ c \in Conns |-> << >> ], resumed |-> FALSE ]

(* server.ts start-up: new MarketDataService(), new WebSocketService(),
   startMarketSimulation(), the two listeners; alerts.routes.ts builds an
   engine of its own *)
InitListening(tables, seeds, routeSeeds, listeners) ==
    /\ alertListeners = listeners
    /\ reader = [ symbol |-> "", seen |-> [ none |-> TRUE ] ]
    /\ heartbeat = [ ws \in Conns |-> NewSocket ]
    /\ seed \in seeds
    /\ \E table \in tables, rs \in routeSeeds :
           /\ configs = table
           /\ routeTickers = [ symbol \in Symbols |-> TickerModel(table[symbol], rs, 0) ]
           /\ tickers = [ symbol \in Symbols |-> TickerModel(table[symbol], seed, 0) ]
    /\ client = ClientInit
    /\ cache = [ store |-> [ key \in {} |-> 0 ], now |-> 0 ]
    /\ clock = 0
    /\ updateInterval = 1
    /\ isMarketOpen = TRUE
    /\ updateFrequency = 2000
    /\ subscribers = [ symbol \in Symbols |-> {} ]
    /\ clients = [ ws \in {} |-> {} ]
    /\ readyState = [ ws \in Conns |-> "NONE" ]
    /\ alerts = [ u \in Users |-> << >> ]
    /\ alertIdCounter = 1
    /\ outbox = << >>
    /\ trace = << >>
    /\ fired = << >>
    /\ lastOp = Op("init", "", << >>)
    /\ observed = [ name \in Stages |-> [ symbol \in Symbols |-> << >> ] ]

InitOf(tables, seeds, routeSeeds) ==
    InitListening(tables, seeds, routeSeeds, AlertTriggeredListeners)

InitWith(seeds, routeSeeds) == InitOf({TICKER_CONFIGS}, seeds, routeSeeds)

(* a callback that updates the prices whether the market is open or not *)
TimerCallbackWhenClosed(draws) ==
    /\ updateInterval > 0
    /\ clock < MaxTicks
    /\ clock' = clock + 1
    /\ \E rolls \in [ Symbols -> {Skip} \cup draws ] :
           Commit(updateAllPrices(Current, 1, rolls, clock + 1), Op("tick", "", rolls))
    /\ UNCHANGED << heartbeat, reader, alertListeners, cache, client, configs, seed, routeTickers, driverVars, readyState, alertIdCounter >>

(* the setInterval callback of startMarketSimulation *)
TimerCallback(draws) ==
    /\ updateInterval > 0
    /\ clock < MaxTicks
    /\ clock' = clock + 1
    /\ IF isMarketOpen
       THEN \E rolls \in [ Symbols -> {Skip} \cup draws ] :
                Commit(updateAllPrices(Current, 1, rolls, clock + 1), Op("tick", "", rolls))
       ELSE Commit(Current, Op("tick", "", << >>))
    /\ UNCHANGED << heartbeat, reader, alertListeners, cache, client, configs, seed, routeTickers, driverVars, readyState, alertIdCounter >>

(* startMarketSimulation() *)
StartMarketSimulation ==
    /\ updateInterval' = IF updateInterval > 0 THEN updateInterval ELSE updateInterval + 1
    /\ Commit(Current, Op("start", "", << >>))
    /\ UNCHANGED << heartbeat, reader, alertListeners, cache, client, configs, seed, routeTickers, clock, isMarketOpen, updateFrequency, readyState, alertIdCounter >>

(* stopMarketSimulation() *)
StopMarketSimulation ==
    /\ updateInterval' = IF updateInterval > 0 THEN updateInterval - 1 ELSE updateInterval
    /\ Commit(Current, Op("stop", "", << >>))
    /\ UNCHANGED << heartbeat, reader, alertListeners, cache, client, configs, seed, routeTickers, clock, isMarketOpen, updateFrequency, readyState, alertIdCounter >>

(* setMarketOpen(isOpen) *)
SetMarketOpen(isOpen) ==
    /\ isMarketOpen' = isOpen
    /\ Commit(Current, Op("setMarketOpen", "", isOpen))
    /\ UNCHANGED << heartbeat, reader, alertListeners, cache, client, configs, seed, routeTickers, clock, updateInterval, updateFrequency, readyState, alertIdCounter >>

(* a setUpdateFrequency that starts a timer without stopping the old one *)
SetFrequencyWithoutStop(ms) ==
    /\ updateFrequency' = clampFrequency(ms)
    /\ updateInterval' = IF updateInterval > 0 THEN updateInterval + 1 ELSE updateInterval
    /\ Commit(Current, Op("setUpdateFrequency", "", ms))
    /\ UNCHANGED << heartbeat, reader, alertListeners, cache, client, configs, seed, routeTickers, clock, isMarketOpen, readyState, alertIdCounter >>

(* setUpdateFrequency(ms): stop and start again when running *)
SetUpdateFrequency(ms) ==
    /\ updateFrequency' = clampFrequency(ms)
    /\ updateInterval' = IF updateInterval > 0 THEN (updateInterval - 1) + 1 ELSE updateInterval
    /\ Commit(Current, Op("setUpdateFrequency", "", ms))
    /\ UNCHANGED << heartbeat, reader, alertListeners, cache, client, configs, seed, routeTickers, clock, isMarketOpen, readyState, alertIdCounter >>

(* wss.on('connection'): handleConnection(ws) *)
HandleConnection(ws) ==
    /\ readyState[ws] = "NONE"
    /\ readyState' = [ readyState EXCEPT ![ws] = "OPEN" ]
    /\ Commit([ Current EXCEPT
                  !.clients = [ c \in DOMAIN @ \cup {ws} |-> IF c = ws THEN {} ELSE @[c] ],
                  !.outbox = << Msg(ws, "connection", "", 0, 0, << >>) >> ],
              Op("connection", ws, << >>))
    /\ heartbeat' = [ heartbeat EXCEPT ![ws] = NewSocket ]
    /\ UNCHANGED << reader, alertListeners, cache, client, configs, seed, routeTickers, clock, driverVars, alertIdCounter >>

(* the peer's close frame arrives, or the heartbeat terminates the socket:
   readyState leaves OPEN; the 'close' event comes later *)
SocketClosing(ws) ==
    /\ readyState[ws] = "OPEN"
    /\ readyState' = [ readyState EXCEPT ![ws] = "CLOSING" ]
    /\ Commit(Current, Op("closing", ws, << >>))
    /\ UNCHANGED << heartbeat, reader, alertListeners, cache, client, configs, seed, routeTickers, clock, driverVars, alertIdCounter >>

(* ws.on('close'): handleDisconnect(ws); the handler is also run for a socket
   already removed *)
HandleDisconnect(ws) ==
    /\ readyState' = [ readyState EXCEPT ![ws] = "NONE" ]
    /\ Commit(handleDisconnect(Current, ws), Op("close", ws, << >>))
    /\ UNCHANGED << heartbeat, reader, alertListeners, cache, client, configs, seed, routeTickers, clock, driverVars, alertIdCounter >>

(* a heartbeat body that pings again and terminates nobody *)
heartbeatPingsOnly(hb, ws) ==
    [ terminate |-> FALSE, socket |-> [ isAlive |-> "false", ping |-> hb[ws].ping \/ Open(ws) ] ]

(* the body of the heartbeat's forEach for one socket: terminate it when
   isAlive === false, else clear isAlive and ping *)
heartbeatOne(hb, ws) ==
    IF hb[ws].isAlive = "false"
    THEN [ terminate |-> TRUE, socket |-> hb[ws] ]
    ELSE [ terminate |-> FALSE, socket |-> [ isAlive |-> "false", ping |-> hb[ws].ping \/ Open(ws) ] ]

(* the setInterval callback of startHeartbeat, over wss.clients; terminate()
   takes the socket out of OPEN and its 'close' event follows *)
HeartbeatRound ==
    /\ wssClients # {}
    /\ heartbeat' = [ ws \in Conns |->
                        IF ws \in wssClients THEN heartbeatOne(heartbeat, ws).socket
                        ELSE heartbeat[ws] ]
    /\ readyState' = [ ws \in Conns |->
                         IF ws \in wssClients /\ heartbeatOne(heartbeat, ws).terminate
                         THEN "CLOSING" ELSE readyState[ws] ]
    /\ Commit(Current, Op("heartbeatRound", "",
                          { ws \in wssClients : heartbeatOne(heartbeat, ws).terminate }))
    /\ UNCHANGED << reader, alertListeners, cache, client, configs, seed, routeTickers, clock, driverVars, alertIdCounter >>

(* ws.on('pong'): handlePong(ws), for the pong that answers a ping *)
HandlePong(ws) ==
    /\ readyState[ws] = "OPEN"
    /\ heartbeat[ws].ping
    /\ heartbeat' = [ heartbeat EXCEPT ![ws] = [ isAlive |-> "true", ping |-> FALSE ] ]
    /\ Commit(Current, Op("pong", ws, << >>))
    /\ UNCHANGED << reader, alertListeners, cache, client, configs, seed, routeTickers, clock, driverVars, readyState, alertIdCounter >>

RECURSIVE SeqsUpTo(_, _)
SeqsUpTo(S, n) ==
    IF n = 0 THEN { << >> }
    ELSE LET shorter == SeqsUpTo(S, n - 1)
         IN  shorter \cup { Append(q, x) : q \in shorter, x \in S }

Batches == SeqsUpTo(SymbolNames, MaxBatch) \ { << >> }

(* both message shapes of the bundled client and of the protocol document:
   symbols at the top level, or one symbol under data *)
Messages ==
    { [ type |-> t, shape |-> "top", symbols |-> b ] :
        t \in {"subscribe", "unsubscribe"}, b \in Batches }
    \cup { [ type |-> t, shape |-> "data", symbols |-> b ] :
        t \in {"subscribe", "unsubscribe"}, b \in SeqsUpTo(Symbols, 1) \ { << >> } }
    \cup { [ type |-> t, shape |-> "top", symbols |-> << >> ] : t \in {"heartbeat", "bogus"} }

(* ws.on('message'): handleMessage(ws, data), for the messages of a set *)
HandleMessageOf(ws, messages) ==
    /\ readyState[ws] = "OPEN"
    /\ \E message \in messages :
           Commit(handleMessage(Current, ws, message), Op("message", ws, message))
    /\ UNCHANGED << heartbeat, reader, alertListeners, cache, client, configs, seed, routeTickers, clock, driverVars, readyState, alertIdCounter >>

HandleMessage(ws) == HandleMessageOf(ws, Messages)

(* the one message explored together with alerts, which c1 sends: subscribe
   to AAPL *)
FanoutMessages == { [ type |-> "subscribe", shape |-> "top", symbols |-> << "AAPL" >> ] }

(* POST /api/alerts: alertsService.createAlert *)
CreateAlert(u) ==
    /\ alertIdCounter <= MaxAlerts
    /\ alertIdCounter' = alertIdCounter + 1
    /\ \E symbol \in Symbols, type \in {"above", "below"} :
         \E threshold \in Thresholds(symbol) :
           Commit([ Current EXCEPT
                      !.alerts[u] = Append(@, createAlert(alertIdCounter, u, symbol, type, threshold, clock)),
                      !.fired = Append(@, 0) ],
                  Op("createAlert", "", alertIdCounter))
    /\ UNCHANGED << heartbeat, reader, alertListeners, cache, client, configs, seed, routeTickers, clock, driverVars, readyState >>

IndexOf(userAlerts, id) ==
    IF \E i \in 1..Len(userAlerts) : userAlerts[i].id = id
    THEN CHOOSE i \in 1..Len(userAlerts) : userAlerts[i].id = id
    ELSE 0

(* getUserAlerts(userId): this.alerts.get(userId) || [] *)
getUserAlerts(st, u) == IF u \in DOMAIN st.alerts THEN st.alerts[u] ELSE << >>

(* what deleteAlert returns: false when the caller's list has no such id *)
deleteAlertReturns(st, u, id) == IndexOf(getUserAlerts(st, u), id) # 0

(* what toggleAlert returns: null when the caller's list has no such id, the
   toggled alert otherwise *)
Null == [ null |-> TRUE ]
toggleAlertReturns(st, u, id) ==
    LET index == IndexOf(getUserAlerts(st, u), id)
    IN  IF index = 0 THEN Null
        ELSE [ st.alerts[u][index] EXCEPT !.active = ~@ ]

(* a delete that looks for the id in every user's list *)
deleteFromAnyUser(st, u, id) ==
    [ st EXCEPT !.alerts = [ v \in DOMAIN @ |->
                              LET index == IndexOf(@[v], id)
                              IN  IF index = 0 THEN @[v]
                                  ELSE SubSeq(@[v], 1, index - 1)
                                       \o SubSeq(@[v], index + 1, Len(@[v])) ] ]

(* a delete that switches the alert off and keeps it in the list *)
deleteDeactivates(st, u, id) ==
    LET index == IndexOf(st.alerts[u], id)
    IN  IF index = 0 THEN st
        ELSE [ st EXCEPT !.alerts[u][index].active = FALSE ]

(* deleteAlert(userId, alertId) *)
deleteAlert(st, u, id) ==
    LET index == IndexOf(st.alerts[u], id)
    IN  IF index = 0 THEN st
        ELSE [ st EXCEPT !.alerts[u] = SubSeq(@, 1, index - 1) \o SubSeq(@, index + 1, Len(@)) ]

(* a toggle that also clears triggeredAt *)
toggleRearm(st, u, id) ==
    LET index == IndexOf(st.alerts[u], id)
    IN  IF index = 0 THEN st
        ELSE [ st EXCEPT !.alerts[u][index].active = ~@,
                         !.alerts[u][index].triggeredAt = NoTime ]

(* toggleAlert(userId, alertId) *)
toggleAlert(st, u, id) ==
    LET index == IndexOf(st.alerts[u], id)
    IN  IF index = 0 THEN st
        ELSE [ st EXCEPT !.alerts[u][index].active = ~@ ]

AlertIds == 1..MaxAlerts

(* DELETE /api/alerts/:alertId *)
DeleteAlert(u) ==
    /\ \E id \in AlertIds : Commit(deleteAlert(Current, u, id), Op("deleteAlert", u, id))
    /\ UNCHANGED << heartbeat, reader, alertListeners, cache, client, configs, seed, routeTickers, clock, driverVars, readyState, alertIdCounter >>

(* PATCH /api/alerts/:alertId/toggle *)
ToggleAlert(u) ==
    /\ \E id \in AlertIds : Commit(toggleAlert(Current, u, id), Op("toggleAlert", u, id))
    /\ UNCHANGED << heartbeat, reader, alertListeners, cache, client, configs, seed, routeTickers, clock, driverVars, readyState, alertIdCounter >>

(* marketDataService.getTicker('AAPL') of alerts.routes.ts: that engine never ticks *)
routeTicker == routeTickers["AAPL"]

(* POST /api/alerts/test-trigger *)
TestTrigger(u) ==
    /\ alertIdCounter <= MaxAlerts
    /\ alertIdCounter' = alertIdCounter + 1
    /\ LET st == [ Current EXCEPT
                     !.alerts[u] = Append(@, createAlert(alertIdCounter, u, "AAPL", "above",
                                                         routeTicker.price - 1, clock)),
                     !.fired = Append(@, 0) ]
       IN  Commit(checkAlerts(st, "AAPL", routeTicker.price, clock), Op("testTrigger", u, alertIdCounter))
    /\ UNCHANGED << heartbeat, reader, alertListeners, cache, client, configs, seed, routeTickers, clock, driverVars, readyState >>

----------------------------------------------------------------------------
(* CacheService (cache.service.ts); times in ms *)

defaultTTL == 60000
CacheKeys == { "k1", "k2" }
CacheData == { [ value |-> "a" ], [ value |-> "b" ] }
(* Date.now() is observed in thirds of the default TTL *)
TimeStep == defaultTTL \div 3
CacheTtls == { TimeStep, defaultTTL }
TimeSteps == { TimeStep }

(* an expiry test that also drops an entry whose age equals its TTL *)
expiredAtTtl(entry, now) == now - entry.timestamp >= entry.ttl

(* now - entry.timestamp > entry.ttl *)
expired(entry, now) == now - entry.timestamp > entry.ttl

(* this.cache.delete(key) *)
MapDelete(store, key) == [ k \in DOMAIN store \ {key} |-> store[k] ]

(* set(key, data, ttl) *)
cacheSet(c, key, data, ttl) ==
    [ c EXCEPT !.store = [ k \in DOMAIN @ \cup {key} |->
                            IF k = key THEN [ data |-> data, timestamp |-> c.now, ttl |-> ttl ]
                            ELSE @[k] ] ]

(* get(key): [cache, result] *)
cacheGet(c, key) ==
    IF key \notin DOMAIN c.store THEN [ cache |-> c, result |-> Null ]
    ELSE IF expired(c.store[key], c.now)
         THEN [ cache |-> [ c EXCEPT !.store = MapDelete(@, key) ], result |-> Null ]
         ELSE [ cache |-> c, result |-> c.store[key].data ]

(* has(key): [cache, result] *)
cacheHas(c, key) ==
    IF key \notin DOMAIN c.store THEN [ cache |-> c, result |-> FALSE ]
    ELSE IF expired(c.store[key], c.now)
         THEN [ cache |-> [ c EXCEPT !.store = MapDelete(@, key) ], result |-> FALSE ]
         ELSE [ cache |-> c, result |-> TRUE ]

(* cleanup(): every expired entry is deleted *)
cacheCleanup(c) ==
    [ c EXCEPT !.store = [ k \in { x \in DOMAIN @ : ~expired(@[x], c.now) } |-> @[k] ] ]

CacheStep(c, op) ==
    /\ cache' = c
    /\ Commit(Current, op)
    /\ UNCHANGED << heartbeat, reader, alertListeners, client, configs, seed, routeTickers, clock, driverVars, readyState, alertIdCounter >>

CacheSet(key, data, ttl) ==
    /\ key \in CacheKeys
    /\ CacheStep(cacheSet(cache, key, data, ttl),
                 Op("set", "", [ key |-> key, data |-> data, ttl |-> ttl ]))

CacheGet(key) ==
    /\ key \in CacheKeys
    /\ LET r == cacheGet(cache, key)
       IN  CacheStep(r.cache, Op("get", "", [ key |-> key, result |-> r.result ]))

CacheHas(key) ==
    /\ key \in CacheKeys
    /\ LET r == cacheHas(cache, key)
       IN  CacheStep(r.cache, Op("has", "", [ key |-> key, result |-> r.result ]))

(* delete(key) *)
CacheDelete(key) ==
    /\ key \in CacheKeys
    /\ CacheStep([ cache EXCEPT !.store = MapDelete(@, key) ],
                 Op("delete", "", [ key |-> key, result |-> key \in DOMAIN cache.store ]))

(* the periodic cleanup() *)
CacheCleanup ==
    /\ cache.store \in [ DOMAIN cache.store -> UNION { { cache.store[k] } : k \in DOMAIN cache.store } ]
    /\ CacheStep(cacheCleanup(cache), Op("cleanup", "", << >>))

(* time passes: Date.now() grows *)
TimePasses(d) ==
    /\ cache.now + d <= MaxTime * TimeStep
    /\ CacheStep([ cache EXCEPT !.now = @ + d ], Op("time", "", d))

NextCache ==
    \/ \E key \in CacheKeys, data \in CacheData, ttl \in CacheTtls : CacheSet(key, data, ttl)
    \/ \E key \in CacheKeys : CacheGet(key)
    \/ \E key \in CacheKeys : CacheHas(key)
    \/ \E key \in CacheKeys : CacheDelete(key)
    \/ CacheCleanup
    \/ \E d \in TimeSteps : TimePasses(d)

----------------------------------------------------------------------------
(* The browser's WebSocketService (src/frontend/services/api.service.ts) *)

maxReconnectAttempts == 5

(* this.ws?.readyState === WebSocket.OPEN *)
ClientOpen(cl) == cl.ws # "" /\ cl.sockets[cl.ws] = "OPEN"

(* at most MaxWire messages are in flight on a socket *)
WireRoom(cl) == ClientOpen(cl) => Len(cl.wire[cl.ws]) < MaxWire

(* sendMessage(type, { symbols }): dropped unless this.ws is OPEN *)
sendMessage(cl, type, symbols) ==
    IF ~ClientOpen(cl) THEN cl
    ELSE [ cl EXCEPT !.wire[cl.ws] =
             Append(@, [ type |-> type, shape |-> "data", symbols |-> symbols ]) ]

(* an onopen that resubscribes to the first remembered symbol only *)
resubscribeFirst(cl) ==
    IF cl.subscribedSymbols = << >> THEN cl
    ELSE sendMessage(cl, "subscribe", << Head(cl.subscribedSymbols) >>)

(* onopen: Array.from(this.subscribedSymbols) in one subscribe message *)
resubscribe(cl) ==
    IF cl.subscribedSymbols = << >> THEN cl
    ELSE sendMessage(cl, "subscribe", cl.subscribedSymbols)

(* the body of connect() when this.ws is not OPEN: a new socket c *)
connect(cl, c) ==
    [ cl EXCEPT !.isIntentionallyClosed = FALSE, !.ws = c, !.sockets[c] = "CONNECTING" ]

(* attemptReconnect() *)
attemptReconnect(cl) ==
    IF cl.reconnectAttempts >= maxReconnectAttempts THEN cl
    ELSE [ cl EXCEPT !.reconnectAttempts = @ + 1, !.reconnectTimeout = TRUE ]

ClientStep(cl, op) ==
    /\ client' = cl
    /\ Commit(Current, op)
    /\ UNCHANGED << heartbeat, reader, alertListeners, cache, configs, seed, routeTickers, clock, driverVars, readyState, alertIdCounter >>

(* the application calls connect() *)
ClientConnect(c) ==
    /\ ~ClientOpen(client)
    /\ client.sockets[c] = "NONE" /\ readyState[c] = "NONE"
    /\ ClientStep(connect(client, c), Op("connect", c, << >>))

(* the reconnect timer fires: connect() *)
ReconnectTimeout(c) ==
    /\ client.reconnectTimeout
    /\ IF ClientOpen(client)
       THEN ClientStep([ client EXCEPT !.reconnectTimeout = FALSE ], Op("reconnect", "", << >>))
       ELSE /\ client.sockets[c] = "NONE" /\ readyState[c] = "NONE"
            /\ ClientStep(connect([ client EXCEPT !.reconnectTimeout = FALSE ], c),
                          Op("reconnect", c, << >>))

(* the server accepts the socket the client is opening *)
Accept(c) ==
    /\ client.sockets[c] = "CONNECTING"
    /\ HandleConnection(c)

(* ws.onopen of socket c *)
ClientOnOpen(c) ==
    /\ client.sockets[c] = "CONNECTING"
    /\ readyState[c] = "OPEN"
    /\ ClientStep(resubscribe([ client EXCEPT !.sockets[c] = "OPEN",
                                              !.resumed = client.reconnectAttempts > 0,
                                              !.reconnectAttempts = 0 ]),
                  Op("onopen", c, << >>))

(* ws.onclose of socket c: the server side has gone, the socket was closed by
   disconnect(), or the connection attempt failed *)
ClientOnClose(c) ==
    /\ \/ client.sockets[c] = "CLOSING"
       \/ client.sockets[c] = "OPEN" /\ readyState[c] # "OPEN"
       \/ client.sockets[c] = "CONNECTING" /\ readyState[c] = "NONE"
    /\ LET closed == [ client EXCEPT !.sockets[c] = "NONE", !.wire[c] = << >> ]
       IN  ClientStep(IF closed.isIntentionallyClosed THEN closed ELSE attemptReconnect(closed),
                      Op("onclose", c, << >>))

(* disconnect() *)
ClientDisconnect ==
    /\ client.isIntentionallyClosed \in BOOLEAN
    /\ ClientStep([ client EXCEPT
                      !.isIntentionallyClosed = TRUE,
                      !.reconnectTimeout = FALSE,
                      !.sockets = IF client.ws = "" \/ @[client.ws] = "NONE" THEN @
                                  ELSE [ @ EXCEPT ![client.ws] = "CLOSING" ],
                      !.ws = "",
                      !.subscribedSymbols = << >> ],
                  Op("disconnect", "", << >>))

(* Set.add, Set.delete keeping the insertion order *)
SetAdd(q, x) == IF \E i \in 1..Len(q) : q[i] = x THEN q ELSE Append(q, x)
SetDelete(q, x) == SelectSeq(q, LAMBDA y : y # x)

(* subscribe(symbol) *)
ClientSubscribe(symbol) ==
    /\ WireRoom(client)
    /\ LET added == [ client EXCEPT !.subscribedSymbols = SetAdd(@, symbol) ]
       IN  ClientStep(sendMessage(added, "subscribe", << symbol >>), Op("clientSubscribe", "", symbol))

(* unsubscribe(symbol) *)
ClientUnsubscribe(symbol) ==
    /\ WireRoom(client)
    /\ LET deleted == [ client EXCEPT !.subscribedSymbols = SetDelete(@, symbol) ]
       IN  ClientStep(sendMessage(deleted, "unsubscribe", << symbol >>), Op("clientUnsubscribe", "", symbol))

(* the server receives the oldest message in flight on socket c *)
Deliver(c) ==
    /\ client.wire[c] # << >>
    /\ readyState[c] = "OPEN"
    /\ client' = [ client EXCEPT !.wire[c] = Tail(@) ]
    /\ Commit(handleMessage(Current, c, Head(client.wire[c])), Op("deliver", c, Head(client.wire[c])))
    /\ UNCHANGED << heartbeat, reader, alertListeners, cache, configs, seed, routeTickers, clock, driverVars, readyState, alertIdCounter >>

MidSeed == [ m0 |-> 5000, m1 |-> 5000, n |-> 5000, w |-> 5000, v |-> 5000, p |-> 5000 ]

(* timer draws explored with sockets and alerts (a rise) and alone (the
   largest fall, the largest rise) *)
SocketDraws == { << 9990, 5000, 5000 >> }
EngineDraws == { << 0, 0, 5000 >>, << 9990, 9990, 5000 >> }

Init == InitWith({MidSeed}, {MidSeed})

(* the subscription and broadcast layer under the timer *)
Next ==
    \/ TimerCallback(SocketDraws)
    \/ \E ws \in Conns : HandleConnection(ws)
    \/ \E ws \in Conns : SocketClosing(ws)
    \/ \E ws \in Conns : HandleDisconnect(ws)
    \/ \E ws \in Conns : HandleMessage(ws)

Spec == Init /\ [][Next]_vars

(* the alert engine under the timer *)
NextAlerts ==
    \/ TimerCallback(SocketDraws)
    \/ \E u \in Users : CreateAlert(u)
    \/ \E u \in Users : DeleteAlert(u)
    \/ \E u \in Users : ToggleAlert(u)

SpecAlerts == Init /\ [][NextAlerts]_vars

(* alert delivery: alerts fired by the timer and by the test route, with
   sockets coming and going *)
NextFanout ==
    \/ TimerCallback(SocketDraws)
    \/ \E ws \in Conns : HandleConnection(ws)
    \/ \E ws \in Conns : SocketClosing(ws)
    \/ \E ws \in Conns : HandleDisconnect(ws)
    \/ HandleMessageOf("c1", FanoutMessages)
    \/ \E u \in Users : CreateAlert(u)
    \/ \E u \in Users : TestTrigger(u)

SpecFanout == Init /\ [][NextFanout]_vars

InitEngine == InitWith(Seeds, {MidSeed})

NextEngine ==
    \/ TimerCallback(EngineDraws)
    \/ StartMarketSimulation
    \/ StopMarketSimulation
    \/ \E isOpen \in BOOLEAN : SetMarketOpen(isOpen)
    \/ \E ms \in FrequencyInputs : SetUpdateFrequency(ms)

SpecEngine == InitEngine /\ [][NextEngine]_vars

(* the browser opens one socket at a time: a new one when the server has
   let go of the last *)
ClientConns == {"c1"}

NextClient ==
    \/ TimerCallback(SocketDraws)
    \/ \E c \in ClientConns : ClientConnect(c)
    \/ \E c \in ClientConns : ReconnectTimeout(c)
    \/ \E c \in ClientConns : Accept(c)
    \/ \E c \in ClientConns : ClientOnOpen(c)
    \/ \E c \in ClientConns : ClientOnClose(c)
    \/ ClientDisconnect
    \/ \E symbol \in Symbols : ClientSubscribe(symbol)
    \/ \E symbol \in Symbols : ClientUnsubscribe(symbol)
    \/ \E c \in ClientConns : Deliver(c)
    \/ \E c \in ClientConns : SocketClosing(c)
    \/ \E c \in ClientConns : HandleDisconnect(c)

(* the client's connection handling with two sockets it can create, the
   server accepting, dropping and closing them *)
NextClientPair ==
    \/ \E c \in Conns : ClientConnect(c)
    \/ \E c \in Conns : ReconnectTimeout(c)
    \/ \E c \in Conns : Accept(c)
    \/ \E c \in Conns : ClientOnOpen(c)
    \/ \E c \in Conns : ClientOnClose(c)
    \/ ClientDisconnect
    \/ \E c \in Conns : SocketClosing(c)
    \/ \E c \in Conns : HandleDisconnect(c)

SpecClientPair == Init /\ [][NextClientPair]_vars

(* the alert store under the timer, with a listener of 'alert-triggered'
   registered ahead of the server's that evaluates again from inside *)
InitReentrant ==
    InitListening({TICKER_CONFIGS}, {MidSeed}, {MidSeed},
                  << "reentrantListener" >> \o AlertTriggeredListeners)

NextReentrant ==
    \/ TimerCallback(SocketDraws)
    \/ \E u \in Users : CreateAlert(u)
    \/ \E u \in Users : ToggleAlert(u)

SpecReentrant == InitReentrant /\ [][NextReentrant]_vars

SpecCache == Init /\ [][NextCache]_vars

SpecClient == Init /\ [][NextClient]_vars

(* The engine built from other TICKER_CONFIGS tables: the table of the source,
   and the table with its AAPL row given minPrice > maxPrice, minPrice =
   maxPrice, or a basePrice under minPrice *)
ConfigRows ==
    { TICKER_CONFIGS["AAPL"],
      [ TICKER_CONFIGS["AAPL"] EXCEPT !.minPrice = 22000, !.maxPrice = 15000 ],
      [ TICKER_CONFIGS["AAPL"] EXCEPT !.minPrice = 20000, !.maxPrice = 20000 ],
      [ TICKER_CONFIGS["AAPL"] EXCEPT !.minPrice = 19000 ] }

ConfigTables == { [ TICKER_CONFIGS EXCEPT !["AAPL"] = row ] : row \in ConfigRows }

InitConfig == InitOf(ConfigTables, {MidSeed}, {MidSeed})

SpecConfig == InitConfig /\ [][NextEngine]_vars

----------------------------------------------------------------------------
(* The lookups by symbol, called with registered and unregistered names *)

LowerSymbol == "aapl"
LookupNames == {"AAPL", UnknownSymbol, LowerSymbol}
LookupConns == {"c1"}
Undefined == [ undefined |-> TRUE ]     \* the value of a Map.get that finds nothing

(* a Map.get that folds the case of its key *)
getTickerAnyCase(table, symbol) ==
    IF symbol \in DOMAIN table THEN table[symbol]
    ELSE IF symbol = LowerSymbol THEN table["AAPL"]
    ELSE Undefined

(* TickerModel.getTicker(symbol): this.currentPrices.get(symbol) *)
getTicker(table, symbol) ==
    IF symbol \in DOMAIN table THEN table[symbol] ELSE Undefined

(* TickerModel.getHistoricalData(symbol): this.historicalData.get(symbol) || [] *)
getHistoricalData(symbol) ==
    IF symbol \in Symbols THEN historicalData(symbol) ELSE << >>

(* TickerModel.updatePrice(symbol), from its two lookups on *)
updatePriceOf(st, symbol, roll, now) ==
    LET ticker == getTicker(st.tickers, symbol)
    IN  IF ticker = Undefined \/ symbol \notin DOMAIN configs
        THEN [ st |-> st, result |-> Undefined ]
        ELSE LET updated == updatePrice(ticker, configs[symbol], roll[1], roll[2], roll[3], now)
             IN  [ st |-> [ st EXCEPT !.tickers[symbol] = updated ], result |-> updated ]

Lookup(symbol, result) == [ symbol |-> symbol, result |-> result ]

(* marketDataService.getTicker(symbol) *)
GetTicker(symbol) ==
    /\ Commit(Current, Op("getTicker", "", Lookup(symbol, getTicker(tickers, symbol))))
    /\ UNCHANGED << heartbeat, reader, alertListeners, cache, client, configs, seed, routeTickers, clock, driverVars, readyState, alertIdCounter >>

(* marketDataService.getHistoricalData(symbol) *)
GetHistoricalData(symbol) ==
    /\ Commit(Current, Op("getHistoricalData", "", Lookup(symbol, getHistoricalData(symbol))))
    /\ UNCHANGED << heartbeat, reader, alertListeners, cache, client, configs, seed, routeTickers, clock, driverVars, readyState, alertIdCounter >>

(* tickerModel.updatePrice(symbol), called at a later time than the last *)
UpdatePrice(symbol) ==
    /\ clock < MaxTicks
    /\ clock' = clock + 1
    /\ \E roll \in SocketDraws :
          LET r == updatePriceOf(Current, symbol, roll, clock + 1)
          IN  Commit(r.st, Op("updatePrice", "", Lookup(symbol, r.result)))
    /\ UNCHANGED << heartbeat, reader, alertListeners, cache, client, configs, seed, routeTickers, driverVars, readyState, alertIdCounter >>

(* marketDataService.subscribe(symbol, ws) *)
Subscribe(symbol, ws) ==
    /\ Open(ws)
    /\ LET r == subscribe(Current, symbol, ws)
       IN  Commit(r.st, Op("subscribe", ws, Lookup(symbol, r.ok)))
    /\ UNCHANGED << heartbeat, reader, alertListeners, cache, client, configs, seed, routeTickers, clock, driverVars, readyState, alertIdCounter >>

NextLookup ==
    \/ TimerCallback(SocketDraws)
    \/ \E ws \in LookupConns : HandleConnection(ws)
    \/ \E symbol \in LookupNames : GetTicker(symbol)
    \/ \E symbol \in LookupNames : GetHistoricalData(symbol)
    \/ \E symbol \in LookupNames : UpdatePrice(symbol)
    \/ \E symbol \in LookupNames, ws \in LookupConns : Subscribe(symbol, ws)

SpecLookup == Init /\ [][NextLookup]_vars

(* the heartbeat over sockets that answer their pings or do not, with c1's
   subscription and the timer *)
NextHeartbeat ==
    \/ TimerCallback(SocketDraws)
    \/ \E ws \in Conns : HandleConnection(ws)
    \/ \E ws \in Conns : HandleDisconnect(ws)
    \/ HandleMessageOf("c1", FanoutMessages)
    \/ HeartbeatRound
    \/ \E ws \in Conns : HandlePong(ws)

SpecHeartbeat == Init /\ [][NextHeartbeat]_vars

(* a caller keeps the object getTicker(symbol) returned: the Map's own Ticker,
   which updatePrice assigns to in place; seen is what the caller read from
   it when it got it *)
KeepTicker(symbol) ==
    /\ symbol \in Symbols
    /\ reader' = [ symbol |-> symbol, seen |-> getTicker(tickers, symbol) ]
    /\ Commit(Current, Op("getTicker", "", Lookup(symbol, getTicker(tickers, symbol))))
    /\ UNCHANGED << heartbeat, alertListeners, cache, client, configs, seed, routeTickers, clock, driverVars, readyState, alertIdCounter >>

(* what the caller reads from the object it kept *)
readerSees == getTicker(tickers, reader.symbol)

(* the engine with a caller that keeps what getTicker returned *)
NextReaders ==
    \/ TimerCallback(EngineDraws)
    \/ \E isOpen \in BOOLEAN : SetMarketOpen(isOpen)
    \/ \E symbol \in Symbols : KeepTicker(symbol)

SpecReaders == Init /\ [][NextReaders]_vars

(* every handler that is not the timer's, next to the timer: c1's socket
   with its subscribe and unsubscribe, user 1's alerts and test route, and
   the lookup of AAPL *)
WriterMessages ==
    { [ type |-> t, shape |-> "top", symbols |-> << "AAPL" >> ] : t \in {"subscribe", "unsubscribe"} }

NextWriters ==
    \/ TimerCallback(SocketDraws)
    \/ HandleConnection("c1")
    \/ HandleDisconnect("c1")
    \/ HandleMessageOf("c1", WriterMessages)
    \/ CreateAlert("1")
    \/ DeleteAlert("1")
    \/ ToggleAlert("1")
    \/ TestTrigger("1")
    \/ GetTicker("AAPL")

SpecWriters == Init /\ [][NextWriters]_vars

----------------------------------------------------------------------------
(* GET /api/tickers/:symbol/history *)

(* req.query.days: absent, a word, or the decimal text of an integer *)
DaysValues == { 0 - 5, 0, 7, 45 }
DaysInputs ==
    { [ kind |-> "absent" ], [ kind |-> "text" ] }
    \cup { [ kind |-> "int", value |-> n ] : n \in DaysValues }

WindowDefault == 30      \* const { days = 30 } = req.query; || 30
WindowMax == 30          \* Math.min(..., 30)

(* symbol.toUpperCase() on the names explored *)
toUpperCase(symbol) == IF symbol = LowerSymbol THEN "AAPL" ELSE symbol

(* parseInt(days as string): days is 30 when the parameter is absent *)
parseInt(days) ==
    IF days.kind = "absent" THEN WindowDefault
    ELSE IF days.kind = "int" THEN days.value
    ELSE NaN

(* x || d for a number x: d when x is NaN or 0 *)
OrElse(x, d) == IF x = NaN \/ x = 0 THEN d ELSE x

(* Array.prototype.slice(start) *)
slice(array, start) ==
    LET from == IF start < 0 THEN Max(Len(array) + start, 0) ELSE Min(start, Len(array))
    IN  SubSeq(array, from + 1, Len(array))

(* the handler: status and data.dataPoints of the response *)
historyResponse(symbol, days) ==
    LET historical == getHistoricalData(toUpperCase(symbol))
        daysLimit == MathMin(OrElse(parseInt(days), WindowDefault), WindowMax)
    IN  IF Len(historical) = 0
        THEN [ status |-> 404, dataPoints |-> << >> ]
        ELSE [ status |-> 200, dataPoints |-> slice(historical, 0 - daysLimit) ]

GetHistoryRoute(symbol, days) ==
    /\ Commit(Current, Op("history", "",
                          [ symbol |-> symbol, days |-> days,
                            response |-> historyResponse(symbol, days) ]))
    /\ UNCHANGED << heartbeat, reader, alertListeners, cache, client, configs, seed, routeTickers, clock, driverVars, readyState, alertIdCounter >>

NextRoutes ==
    \/ StartMarketSimulation
    \/ StopMarketSimulation
    \/ \E symbol \in LookupNames, days \in DaysInputs : GetHistoryRoute(symbol, days)

SpecRoutes == InitEngine /\ [][NextRoutes]_vars

(* the same calls on an engine built from any of the constructor's draws *)
SpecHistory == InitEngine /\ [][NextLookup]_vars

----------------------------------------------------------------------------
(* Properties *)

(* every alert a user currently holds *)
AllAlerts == UNION { { alerts[u][i] : i \in 1..Len(alerts[u]) } : u \in Users }

(* the step just taken was a timer callback that updated symbol *)
Updated(symbol) ==
    /\ lastOp.op = "tick"
    /\ DOMAIN lastOp.arg = Symbols
    /\ lastOp.arg[symbol] # Skip

(* the alert's condition at a price, as the interface states it *)
ConditionHolds(alert, price) ==
    IF alert.type = "above" THEN price >= alert.threshold ELSE price <= alert.threshold

(* the calls of the step just taken that match a predicate on name and alert id *)
Calls(name, id) == { i \in 1..Len(trace) : trace[i].call = name /\ trace[i].alert = id }

(* C1: over every interleaving of createAlert, toggleAlert, deleteAlert and
   evaluations, each alert is the subject of at most one 'alert-triggered'
   event in its lifetime, also after a fired alert is toggled back to active *)
C1_AtMostOneEvent ==
    /\ \A id \in DOMAIN fired : fired[id] <= 1
    /\ \A id \in DOMAIN fired : Cardinality(Calls("alert-triggered", id)) <= 1

(* a fired alert was toggled back to active and a later tick moved its symbol
   to a price at which its condition holds *)
C1_Witness ==
    \E a \in AllAlerts :
        /\ Updated(a.symbol)
        /\ a.active
        /\ a.triggeredAt # NoTime
        /\ a.triggeredAt < clock
        /\ ConditionHolds(a, tickers[a.symbol].price)
        /\ fired[a.id] = 1

(* C2: at every price-changed event of a symbol, an alert of that symbol that
   is active and has never fired fires exactly when its condition holds at the
   event's price: what is still armed after the event has a condition that
   does not hold, and what fired in the event has one that does *)
C2_FiresAtFirstHit ==
    \A a \in AllAlerts :
        /\ (Updated(a.symbol) /\ a.active /\ a.triggeredAt = NoTime)
               => ~ConditionHolds(a, tickers[a.symbol].price)
        /\ (lastOp.op = "tick" /\ a.triggeredAt = clock)
               => /\ Updated(a.symbol)
                  /\ ConditionHolds(a, tickers[a.symbol].price)
                  /\ ~a.active
                  /\ Cardinality(Calls("alert-triggered", a.id)) = 1

(* an alert stayed armed through an event of its symbol and fired at the next *)
C2_Witness ==
    \E a \in AllAlerts :
        /\ Updated(a.symbol)
        /\ a.triggeredAt = clock
        /\ a.createdAt + 1 < clock
        /\ tickers[a.symbol].price > a.threshold
        /\ a.type = "above"
        /\ a.symbol = "MSFT"

(* WebSocketService.clients.get(ws), empty for a socket the map does not hold *)
OwnSet(ws) == IF ws \in DOMAIN clients THEN clients[ws] ELSE {}

(* C3: in every reachable state a connection is in a symbol's interest set
   (subscribers[symbol]) if and only if the symbol is in the connection's own
   subscribed set (clients[connection]) *)
C3_InterestMatchesOwnSet ==
    \A ws \in Conns, symbol \in Symbols :
        ws \in subscribers[symbol] <=> symbol \in OwnSet(ws)

(* C4: from the end of construction on and after every tick update, every
   ticker has low <= price <= high and minPrice <= price <= maxPrice of its
   config *)
C4_PriceWithinRange ==
    \A symbol \in Symbols :
        /\ tickers[symbol].low <= tickers[symbol].price
        /\ tickers[symbol].price <= tickers[symbol].high
        /\ TICKER_CONFIGS[symbol].minPrice <= tickers[symbol].price
        /\ tickers[symbol].price <= TICKER_CONFIGS[symbol].maxPrice

(* a tick moved a price to a new high of the day, while another ticker sits
   on the floor of its config *)
C4_Witness ==
    \E symbol \in Symbols, other \in Symbols :
        /\ Updated(symbol)
        /\ tickers[symbol].price = tickers[symbol].high
        /\ tickers[symbol].price > tickers[symbol].low
        /\ tickers[other].price = TICKER_CONFIGS[other].minPrice

(* C5: right after a disconnect of ws is processed, ws is in no interest set
   and not in the connection map, whatever it had subscribed to; a disconnect
   of a connection that is in no interest set leaves every interest set as it
   was, one of a connection already removed leaves the map as it was too, and
   no error is sent *)
C5_DisconnectClears ==
    [][ \A ws \in Conns :
          (lastOp'.op = "close" /\ lastOp'.ws = ws)
          => /\ \A symbol \in Symbols : ws \notin subscribers'[symbol]
             /\ ws \notin DOMAIN clients'
             /\ \A symbol \in Symbols : subscribers'[symbol] = subscribers[symbol] \ {ws}
             /\ \A c \in DOMAIN clients \ {ws} : c \in DOMAIN clients' /\ clients'[c] = clients[c]
             /\ (ws \notin DOMAIN clients => clients' = clients)
             /\ outbox' = << >> ]_vars

(* a connection subscribed to both symbols was disconnected while the other
   connection stays subscribed *)
C5_Witness ==
    /\ lastOp.op = "close"
    /\ lastOp.held = Symbols
    /\ \E c \in Conns \ {lastOp.ws} : c \in subscribers["AAPL"]

(* the messages of a given type and symbol that a step queued for ws *)
Sent(box, ws, type, symbol) ==
    { i \in 1..Len(box) : box[i].to = ws /\ box[i].type = type /\ box[i].symbol = symbol }

(* C6: a tick that updates symbol S sends exactly one price_update of S,
   carrying the new price, to every OPEN connection of S's interest set and
   none to any other connection; a tick that skips S sends none; whoever
   receives one has S in its own subscribed set *)
C6_TickFanOut ==
    [][ lastOp'.op = "tick"
        => \A symbol \in Symbols, ws \in Conns :
             LET got == Sent(outbox', ws, "price_update", symbol)
                 due == /\ DOMAIN lastOp'.arg = Symbols
                        /\ lastOp'.arg[symbol] # Skip
                        /\ ws \in subscribers[symbol]
                        /\ Open(ws)
             IN  /\ Cardinality(got) = (IF due THEN 1 ELSE 0)
                 /\ \A i \in got : outbox'[i].price = tickers'[symbol].price
                 /\ got # {} => symbol \in OwnSet(ws) ]_vars

(* a tick updated both symbols; c1, subscribed to AAPL only, got the AAPL
   update and c2, OPEN and subscribed to MSFT only, did not *)
C6_Witness ==
    /\ Updated("AAPL") /\ Updated("MSFT")
    /\ readyState = [ ws \in Conns |-> "OPEN" ]
    /\ clients = ("c1" :> {"AAPL"} @@ "c2" :> {"MSFT"})
    /\ Cardinality(Sent(outbox, "c1", "price_update", "AAPL")) = 1
    /\ Sent(outbox, "c2", "price_update", "AAPL") = {}
    /\ Cardinality(Sent(outbox, "c2", "price_update", "MSFT")) = 1

(* C7: every price-changed event the engine produced, from the first tick on,
   was evaluated by exactly one checkAlerts call with the event's symbol and
   price: per symbol the evaluations are the emissions, which are the updates *)
C7_EveryEventEvaluatedOnce ==
    /\ \A symbol \in Symbols :
          /\ observed["checkAlerts"][symbol] = observed["price-update"][symbol]
          /\ observed["price-update"][symbol] = observed["updatePrice"][symbol]
    /\ \A i \in 1..Len(trace) :
          trace[i].call = "price-update"
          => /\ i < Len(trace)
             /\ trace[i + 1] = Call("checkAlerts", trace[i].symbol, trace[i].price, 0)
             /\ trace[i].price = tickers[trace[i].symbol].price
    /\ \A symbol \in Symbols :
          lastOp.op = "tick"
          => Len(PricesOf(trace, "checkAlerts", symbol)) = (IF Updated(symbol) THEN 1 ELSE 0)

(* the first tick after start-up updated both symbols and each event was
   handed to checkAlerts *)
C7_Witness ==
    /\ clock = 1
    /\ Updated("AAPL") /\ Updated("MSFT")
    /\ \A symbol \in Symbols :
          observed["checkAlerts"][symbol] = << tickers[symbol].price >>

IsPrefix(a, b) == Len(a) <= Len(b) /\ a = SubSeq(b, 1, Len(a))

(* C8: for each symbol, the broadcast layer and the alert engine are given
   the symbol's updates in the order the ticks applied them: at every point
   of every step that makes a call, each consumer's log is a prefix of the
   log of applied updates and at most one update behind it, and at the end
   of the step both equal it *)
C8_SameOrder ==
    [][ trace' # << >>
        => \A symbol \in Symbols :
             /\ \A k \in 0..Len(trace') :
                   LET h == Log(observed, SubSeq(trace', 1, k))
                       applied == h["updatePrice"][symbol]
                       layer == h["broadcastPriceUpdate"][symbol]
                       engine == h["checkAlerts"][symbol]
                   IN  /\ IsPrefix(layer, applied) /\ Len(applied) - Len(layer) <= 1
                       /\ IsPrefix(engine, applied) /\ Len(applied) - Len(engine) <= 1
             /\ observed'["broadcastPriceUpdate"][symbol] = observed'["updatePrice"][symbol]
             /\ observed'["checkAlerts"][symbol] = observed'["updatePrice"][symbol] ]_vars

(* two ticks moved AAPL to two prices; a subscriber was sent the second and
   both consumers hold the two prices in the order they were applied *)
C8_Witness ==
    /\ Updated("AAPL")
    /\ Len(observed["updatePrice"]["AAPL"]) = 2
    /\ observed["updatePrice"]["AAPL"][1] < observed["updatePrice"]["AAPL"][2]
    /\ observed["broadcastPriceUpdate"]["AAPL"] = observed["updatePrice"]["AAPL"]
    /\ observed["checkAlerts"]["AAPL"] = observed["updatePrice"]["AAPL"]
    /\ \E ws \in Conns : Sent(outbox, ws, "price_update", "AAPL") # {}

(* the symbols a message lists *)
Listed(message) == { message.symbols[i] : i \in 1..Len(message.symbols) }

(* C9: a subscribe of symbols the connection is already subscribed to leaves
   the interest sets and the connection's own set unchanged and pushes no
   price_update to it; a subscribe adds at most the connection to the sets of
   the listed symbols and an unsubscribe removes at most it, so subscribe
   then unsubscribe, twice, leaves the interest set as it was *)
C9_RepeatSubscribeIsNoOp ==
    [][ \A ws \in Conns :
          (lastOp'.op = "message" /\ lastOp'.ws = ws)
          => LET message == lastOp'.arg
                 known == Listed(message) \cap Symbols
             IN  /\ (/\ message.type = "subscribe"
                     /\ Listed(message) \subseteq OwnSet(ws)
                     /\ \A symbol \in Listed(message) : ws \in subscribers[symbol])
                    => /\ subscribers' = subscribers
                       /\ clients' = clients
                       /\ \A symbol \in Symbols : Sent(outbox', ws, "price_update", symbol) = {}
                 /\ message.type = "subscribe"
                    => \A symbol \in Symbols :
                         subscribers'[symbol] =
                             IF symbol \in known THEN subscribers[symbol] \cup {ws}
                             ELSE subscribers[symbol]
                 /\ (message.type = "unsubscribe" /\ message.shape = "top")
                    => \A symbol \in Symbols :
                         subscribers'[symbol] =
                             IF symbol \in known THEN subscribers[symbol] \ {ws}
                             ELSE subscribers[symbol] ]_vars

(* how often a message lists a symbol *)
Occurrences(message, symbol) ==
    Cardinality({ i \in 1..Len(message.symbols) : message.symbols[i] = symbol })

(* C10: a subscribe of ws to a symbol whose interest set does not hold it
   sends ws, in the same step and before any later tick, exactly one
   price_update of that symbol with the ticker's current price; no connection
   other than ws is sent anything by a subscribe *)
C10_SnapshotOnSubscribe ==
    [][ \A ws \in Conns :
          (lastOp'.op = "message" /\ lastOp'.ws = ws /\ lastOp'.arg.type = "subscribe")
          => /\ \A symbol \in Symbols :
                  LET got == Sent(outbox', ws, "price_update", symbol)
                  IN  /\ (ws \notin subscribers[symbol] /\ Occurrences(lastOp'.arg, symbol) = 1)
                         => Cardinality(got) = 1
                      /\ Occurrences(lastOp'.arg, symbol) = 0 => got = {}
                      /\ \A i \in got : outbox'[i].price = tickers[symbol].price
             /\ \A i \in 1..Len(outbox') : outbox'[i].to = ws
             /\ tickers' = tickers ]_vars

(* after a tick moved AAPL, c1 subscribed to it for the first time while c2,
   OPEN, was already subscribed: one snapshot went to c1 and nothing to c2 *)
C10_Witness ==
    /\ lastOp.op = "message"
    /\ lastOp.arg.type = "subscribe"
    /\ lastOp.ws = "c1"
    /\ lastOp.held = {}
    /\ Occurrences(lastOp.arg, "AAPL") = 1
    /\ readyState["c2"] = "OPEN"
    /\ "c2" \in subscribers["AAPL"]
    /\ Len(observed["updatePrice"]["AAPL"]) = 1
    /\ \E i \in Sent(outbox, "c1", "price_update", "AAPL") :
          outbox[i].price = observed["updatePrice"]["AAPL"][1]
    /\ \A i \in 1..Len(outbox) : outbox[i].to = "c1"

(* the confirmations of a given type that a step queued for ws *)
Replies(box, ws, type) == { i \in 1..Len(box) : box[i].to = ws /\ box[i].type = type }

(* C11: a subscribe listing known and unknown symbols in any order
   subscribes the connection to every known symbol listed, reports each
   listed symbol in order with status subscribed when known and failed when
   unknown, and sends no error *)
C11_MixedBatchSubscribe ==
    [][ \A ws \in Conns :
          (lastOp'.op = "message" /\ lastOp'.ws = ws /\ lastOp'.arg.type = "subscribe")
          => LET symbols == lastOp'.arg.symbols
                 known == Listed(lastOp'.arg) \cap Symbols
                 replies == Replies(outbox', ws, "subscribe")
             IN  /\ \A symbol \in known :
                       ws \in subscribers'[symbol] /\ symbol \in clients'[ws]
                 /\ clients'[ws] = clients[ws] \cup known
                 /\ replies = { Len(outbox') }
                 /\ \A i \in replies :
                       /\ Len(outbox'[i].results) = Len(symbols)
                       /\ \A k \in 1..Len(symbols) :
                             outbox'[i].results[k] =
                                 [ symbol |-> symbols[k],
                                   status |-> IF symbols[k] \in Symbols
                                              THEN "subscribed" ELSE "failed" ]
                 /\ Replies(outbox', ws, "error") = {} ]_vars

(* c1 sent a subscribe listing an unknown symbol before a known one and is
   subscribed to the known one *)
C11_Witness ==
    /\ lastOp.op = "message"
    /\ lastOp.arg.type = "subscribe"
    /\ lastOp.arg.symbols = << UnknownSymbol, "AAPL" >>
    /\ lastOp.held = {}
    /\ lastOp.ws \in subscribers["AAPL"]
    /\ "AAPL" \in OwnSet(lastOp.ws)
    /\ \E i \in Replies(outbox, lastOp.ws, "subscribe") :
          /\ outbox[i].results[1].status = "failed"
          /\ outbox[i].results[2].status = "subscribed"

(* C12: an unsubscribe (symbols at the top level of the message) removes the
   connection from the interest set of every listed symbol it is subscribed
   to and the symbol from its own set, reports every listed symbol in order,
   unsubscribed for a subscribed pair and failed for a pair not subscribed,
   an unknown symbol or a repeat, sends no error and touches no other set *)
C12_UnsubscribeRemoves ==
    [][ \A ws \in Conns :
          (/\ lastOp'.op = "message" /\ lastOp'.ws = ws
           /\ lastOp'.arg.type = "unsubscribe" /\ lastOp'.arg.shape = "top")
          => LET symbols == lastOp'.arg.symbols
                 known == Listed(lastOp'.arg) \cap Symbols
                 replies == Replies(outbox', ws, "unsubscribe")
             IN  /\ \A symbol \in Symbols :
                       subscribers'[symbol] =
                           IF symbol \in known THEN subscribers[symbol] \ {ws}
                           ELSE subscribers[symbol]
                 /\ clients'[ws] = clients[ws] \ { symbol \in known : ws \in subscribers[symbol] }
                 /\ \A c \in DOMAIN clients \ {ws} : clients'[c] = clients[c]
                 /\ replies = { Len(outbox') }
                 /\ \A i \in replies :
                       /\ Len(outbox'[i].results) = Len(symbols)
                       /\ \A k \in 1..Len(symbols) :
                             outbox'[i].results[k] =
                                 [ symbol |-> symbols[k],
                                   status |-> IF /\ symbols[k] \in Symbols
                                                 /\ ws \in subscribers[symbols[k]]
                                                 /\ \A j \in 1..(k - 1) : symbols[j] # symbols[k]
                                              THEN "unsubscribed" ELSE "failed" ]
                 /\ Replies(outbox', ws, "error") = {} ]_vars

(* c1, subscribed to AAPL only, unsubscribed from MSFT and AAPL in one
   message while c2 stays subscribed to AAPL *)
C12_Witness ==
    /\ lastOp.op = "message"
    /\ lastOp.arg = [ type |-> "unsubscribe", shape |-> "top", symbols |-> << "MSFT", "AAPL" >> ]
    /\ lastOp.held = {"AAPL"}
    /\ OwnSet(lastOp.ws) = {}
    /\ subscribers["AAPL"] = Conns \ {lastOp.ws}
    /\ \E i \in Replies(outbox, lastOp.ws, "unsubscribe") :
          /\ outbox[i].results[1].status = "failed"
          /\ outbox[i].results[2].status = "unsubscribed"

(* C13: a timer step leaves every alert whose active flag is false as it is,
   whatever the prices, and emits no event for it; an alert that is active
   and has never fired, reactivated or not, fires in the step that moves its
   symbol to a price at which its condition holds *)
C13_PausedIsSkipped ==
    [][ lastOp'.op = "tick"
        => \A u \in Users : \A i \in 1..Len(alerts[u]) :
             LET a == alerts[u][i]
                 hit == /\ DOMAIN lastOp'.arg = Symbols
                        /\ lastOp'.arg[a.symbol] # Skip
                        /\ ConditionHolds(a, tickers'[a.symbol].price)
                 events == { k \in 1..Len(trace') :
                               trace'[k].call = "alert-triggered" /\ trace'[k].alert = a.id }
             IN  /\ ~a.active
                    => /\ alerts'[u][i] = a
                       /\ fired'[a.id] = fired[a.id]
                       /\ events = {}
                 /\ (a.active /\ a.triggeredAt = NoTime /\ hit)
                    => /\ alerts'[u][i] = [ a EXCEPT !.active = FALSE, !.triggeredAt = clock' ]
                       /\ Cardinality(events) = 1 ]_vars

(* an alert on AAPL created before the first tick fired at the second,
   although the first already moved AAPL over its threshold: it was paused
   at the first and reactivated before the second *)
C13_Witness ==
    \E a \in AllAlerts :
        /\ a.symbol = "AAPL" /\ a.type = "above"
        /\ a.createdAt = 0
        /\ Updated("AAPL")
        /\ a.triggeredAt = clock
        /\ Len(observed["updatePrice"]["AAPL"]) = 2
        /\ observed["updatePrice"]["AAPL"][1] >= a.threshold

(* the alerts of user u whose id is id: one at most *)
Held(as, u, id) == { as[u][i] : i \in { k \in 1..Len(as[u]) : as[u][k].id = id } }

(* C14: a toggle by user u of an alert u holds flips its active flag and
   changes no other field of it, no other alert and no event count; a toggle
   of an id u does not hold changes nothing; toggling twice restores every
   alert, in whatever state the alert is *)
C14_ToggleFlipsActiveOnly ==
    [][ lastOp'.op = "toggleAlert"
        => LET u == lastOp'.ws
               id == lastOp'.arg
           IN  /\ \A v \in Users : Len(alerts'[v]) = Len(alerts[v])
               /\ \A v \in Users : \A i \in 1..Len(alerts[v]) :
                     alerts'[v][i] =
                         IF v = u /\ alerts[v][i].id = id
                         THEN [ alerts[v][i] EXCEPT !.active = ~alerts[v][i].active ]
                         ELSE alerts[v][i]
               /\ fired' = fired
               /\ trace' = << >> /\ outbox' = << >>
               /\ toggleAlert(toggleAlert(Current, u, id), u, id).alerts = alerts ]_vars

(* the owner toggled a fired alert back to active: triggeredAt is still set *)
C14_Witness ==
    /\ lastOp.op = "toggleAlert"
    /\ \E a \in Held(alerts, lastOp.ws, lastOp.arg) :
          /\ a.active
          /\ a.triggeredAt # NoTime
          /\ fired[a.id] = 1

(* C15: an alert is created active and without triggeredAt; triggeredAt is
   set only in a step that fires the alert, which also clears active and
   emits the alert's event; once set it is the same after every later step
   for as long as the alert exists *)
C15_FiredIsTerminal ==
    [][ \A u \in Users : \A id \in AlertIds :
          \A new \in Held(alerts', u, id) :
            LET events == { k \in 1..Len(trace') :
                              trace'[k].call = "alert-triggered" /\ trace'[k].alert = id }
            IN  /\ Held(alerts, u, id) = {}
                   => new.active /\ new.triggeredAt = NoTime /\ lastOp'.op = "createAlert"
                /\ \A old \in Held(alerts, u, id) :
                      /\ old.triggeredAt # NoTime
                         => new.triggeredAt = old.triggeredAt /\ events = {}
                      /\ (old.triggeredAt = NoTime /\ new.triggeredAt # NoTime)
                         => /\ lastOp'.op = "tick"
                            /\ old.active /\ ~new.active
                            /\ new.triggeredAt = clock'
                            /\ Cardinality(events) = 1
                      /\ events # {} => old.triggeredAt = NoTime /\ new.triggeredAt = clock' ]_vars

(* an alert fired at the first tick, was toggled back to active, and went
   through a second tick that moved its symbol with its condition holding:
   triggeredAt is still the first tick *)
C15_Witness ==
    \E a \in AllAlerts :
        /\ Updated(a.symbol)
        /\ clock = 2
        /\ a.triggeredAt = 1
        /\ a.active
        /\ ConditionHolds(a, tickers[a.symbol].price)

(* C16: a tick that updates a symbol whose interest set holds a connection
   that is no longer OPEN drops that connection from the set and sends it
   nothing, sends the update to every OPEN subscriber of the symbol, hands the
   update to checkAlerts, updates and fans out every other symbol the tick
   rolled, and leaves the timer installed *)
C16_DeadSubscriberContained ==
    [][ (lastOp'.op = "tick" /\ DOMAIN lastOp'.arg = Symbols)
        => \A symbol \in Symbols : \A dead \in subscribers[symbol] :
             (lastOp'.arg[symbol] # Skip /\ ~Open(dead))
             => /\ dead \notin subscribers'[symbol]
                /\ \A i \in 1..Len(outbox') : outbox'[i].to # dead
                /\ \A ws \in subscribers[symbol] :
                      Open(ws) => /\ Cardinality(Sent(outbox', ws, "price_update", symbol)) = 1
                                  /\ ws \in subscribers'[symbol]
                /\ PricesOf(trace', "checkAlerts", symbol) = << tickers'[symbol].price >>
                /\ \A other \in Symbols :
                      lastOp'.arg[other] # Skip
                      => /\ PricesOf(trace', "updatePrice", other) = << tickers'[other].price >>
                         /\ PricesOf(trace', "checkAlerts", other) = << tickers'[other].price >>
                         /\ \A ws \in subscribers[other] :
                               Open(ws) => Cardinality(Sent(outbox', ws, "price_update", other)) = 1
                /\ updateInterval' = updateInterval
                /\ updateInterval' > 0 ]_vars

(* the first tick updated both symbols while c1, CLOSING and not yet
   disconnected, was in AAPL's interest set with c2: c1 was pruned, c2 got
   both of its updates and both events were evaluated *)
C16_Witness ==
    /\ clock = 1
    /\ Updated("AAPL") /\ Updated("MSFT")
    /\ readyState["c1"] = "CLOSING" /\ readyState["c2"] = "OPEN"
    /\ "AAPL" \in OwnSet("c1")
    /\ subscribers["AAPL"] = {"c2"}
    /\ "c2" \in subscribers["MSFT"]
    /\ Cardinality(Sent(outbox, "c2", "price_update", "AAPL")) = 1
    /\ Cardinality(Sent(outbox, "c2", "price_update", "MSFT")) = 1
    /\ \A i \in 1..Len(outbox) : outbox[i].to = "c2"
    /\ \A symbol \in Symbols : Len(PricesOf(trace, "checkAlerts", symbol)) = 1

(* a config whose bounds are empty or do not hold its base price *)
Malformed(config) ==
    \/ config.minPrice >= config.maxPrice
    \/ config.basePrice < config.minPrice
    \/ config.basePrice > config.maxPrice

(* C17: an engine built from a table with a malformed row is never running:
   no timer is installed for it and no timer callback has run *)
C17_MalformedConfigIsFatal ==
    (\E symbol \in Symbols : Malformed(configs[symbol]))
        => /\ updateInterval = 0
           /\ lastOp.op # "tick"

(* the lookups by symbol and the not-found value of each *)
NotFound == ( "getTicker" :> Undefined ) @@ ( "getHistoricalData" :> << >> )
         @@ ( "updatePrice" :> Undefined ) @@ ( "subscribe" :> FALSE )

(* C18: getTicker, getHistoricalData, updatePrice and subscribe, given a name
   that is not a registered symbol, a registered symbol in lower case
   included, return undefined, the empty list, undefined and false, send
   nothing and leave tickers, interest sets, own sets and alerts as they
   were; given a registered symbol they return something else *)
C18_UnknownSymbolNotFound ==
    [][ lastOp'.op \in DOMAIN NotFound
        => IF lastOp'.arg.symbol \in Symbols
           THEN lastOp'.arg.result # NotFound[lastOp'.op]
           ELSE /\ lastOp'.arg.result = NotFound[lastOp'.op]
                /\ outbox' = << >>
                /\ UNCHANGED << tickers, routeTickers, subscribers, clients, alerts,
                                fired, observed, driverVars, readyState >> ]_vars

(* after a tick and with c1 subscribed to AAPL, a lookup of "aapl" or of
   "INVALID" came back not found *)
C18_Witness ==
    /\ lastOp.op \in DOMAIN NotFound
    /\ lastOp.arg.symbol \in {LowerSymbol, UnknownSymbol}
    /\ lastOp.arg.result = NotFound[lastOp.op]
    /\ clock > 0
    /\ subscribers["AAPL"] = {"c1"}

(* C19: every point of every symbol's history has low <= min(open, close) and
   high >= max(open, close), each point's timestamp is later than the one
   before it, and getHistoricalData returns that series *)
C19_HistoryWellFormed ==
    /\ \A symbol \in Symbols :
          LET history == historicalData(symbol)
          IN  /\ Len(history) = HistoryLength
              /\ \A i \in 1..Len(history) :
                    /\ history[i].low <= Min(history[i].open, history[i].close)
                    /\ history[i].high >= Max(history[i].open, history[i].close)
              /\ \A i \in 2..Len(history) :
                    history[i].timestamp > history[i - 1].timestamp
    /\ (lastOp.op = "getHistoricalData" /\ lastOp.arg.symbol \in Symbols)
          => lastOp.arg.result = historicalData(lastOp.arg.symbol)

(* getHistoricalData('AAPL') returned the full series of an engine whose
   draws differ between candles: it has a rising and a falling candle, a wick
   above the body, and the step from the last 4-hour candle to today's first *)
C19_Witness ==
    /\ lastOp.op = "getHistoricalData"
    /\ lastOp.arg.symbol = "AAPL"
    /\ LET history == lastOp.arg.result
       IN  /\ Len(history) = HistoryLength
           /\ \E i \in 1..Len(history) : history[i].close > history[i].open
           /\ \E i \in 1..Len(history) : history[i].close < history[i].open
           /\ \E i \in 1..Len(history) : history[i].high > Max(history[i].open, history[i].close)
           /\ history[DailyCandles + 1].timestamp > history[DailyCandles].timestamp

(* the 'alert' messages of a box for one alert and one connection *)
AlertsTo(box, ws, id) ==
    { i \in 1..Len(box) : box[i].to = ws /\ box[i].type = "alert" /\ box[i].alert = id }

(* C20: in every step, each alert with an 'alert-triggered' event in the
   step is sent as exactly one 'alert' message, carrying the event's symbol
   and price, to every connection that is OPEN, whatever it is subscribed to
   and whoever owns the alert, and to no connection that is not OPEN; no
   'alert' message is sent for an alert without an event in the step *)
C20_AlertToEveryOpen ==
    [][ /\ \A k \in 1..Len(trace') :
             trace'[k].call = "alert-triggered"
             => \A ws \in Conns :
                  LET got == AlertsTo(outbox', ws, trace'[k].alert)
                  IN  /\ Cardinality(got) = (IF Open(ws) THEN 1 ELSE 0)
                      /\ \A i \in got : /\ outbox'[i].symbol = trace'[k].symbol
                                         /\ outbox'[i].price = trace'[k].price
        /\ \A i \in 1..Len(outbox') :
             outbox'[i].type = "alert"
             => \E k \in 1..Len(trace') : /\ trace'[k].call = "alert-triggered"
                                          /\ trace'[k].alert = outbox'[i].alert
        /\ trace' # << >> => readyState' = readyState ]_vars

(* a tick fired an MSFT alert of user "2" while c1 was OPEN and subscribed
   to AAPL only and c2 was CLOSING: c1 got the alert, c2 got nothing *)
C20_Witness ==
    /\ lastOp.op = "tick"
    /\ readyState = ("c1" :> "OPEN" @@ "c2" :> "CLOSING")
    /\ OwnSet("c1") = {"AAPL"}
    /\ subscribers["MSFT"] = {}
    /\ \E a \in AllAlerts :
          /\ a.symbol = "MSFT" /\ a.userId = "2"
          /\ Cardinality(Calls("alert-triggered", a.id)) = 1
          /\ Cardinality(AlertsTo(outbox, "c1", a.id)) = 1
          /\ AlertsTo(outbox, "c2", a.id) = {}

(* C21: getUserAlerts(U) holds only alerts created by U; a toggleAlert or
   deleteAlert by U with the id of an alert another user holds returns null
   or false and leaves every alert of every user as it was *)
C21_ScopedToOwner ==
    [][ /\ \A u \in Users : \A i \in 1..Len(getUserAlerts(Current, u)) :
             getUserAlerts(Current, u)[i].userId = u
        /\ (/\ lastOp'.op \in {"toggleAlert", "deleteAlert"}
            /\ Held(alerts, lastOp'.ws, lastOp'.arg) = {})
           => /\ alerts' = alerts
              /\ fired' = fired
              /\ lastOp'.op = "deleteAlert"
                    => ~deleteAlertReturns(Current, lastOp'.ws, lastOp'.arg)
              /\ lastOp'.op = "toggleAlert"
                    => toggleAlertReturns(Current, lastOp'.ws, lastOp'.arg) = Null ]_vars

(* user "1" just called deleteAlert or toggleAlert with the id of an alert
   user "2" holds, while holding an alert of their own *)
C21_Witness ==
    /\ lastOp.op \in {"toggleAlert", "deleteAlert"}
    /\ lastOp.ws = "1"
    /\ Held(alerts, "2", lastOp.arg) # {}
    /\ Len(alerts["1"]) = 1
    /\ Len(alerts["2"]) = 1

(* C22: the update frequency is within [1000, 10000] ms in every state *)
C22_FrequencyWithinRange ==
    updateFrequency \in 1000..10000

(* the last n points of a series *)
LastN(series, n) == SubSeq(series, Len(series) - Min(n, Len(series)) + 1, Len(series))

(* C23: a successful history response holds at most 30 points: the last
   min(days, 30) points of the symbol's series when days is an integer, the
   last 30 when days is absent or not a number *)
C23_BoundedWindow ==
    (lastOp.op = "history" /\ lastOp.arg.response.status = 200)
    => LET points == lastOp.arg.response.dataPoints
           series == historicalData(toUpperCase(lastOp.arg.symbol))
           days == lastOp.arg.days
       IN  /\ Len(points) <= WindowMax
           /\ points = LastN(series, IF days.kind = "int"
                                     THEN Max(0, Min(days.value, WindowMax))
                                     ELSE WindowDefault)

(* the members of a sequence *)
Members(q) == { q[i] : i \in 1..Len(q) }

(* C24: when a socket opens, the client puts on it one subscribe message
   listing every remembered symbol, each once, and nothing when it remembers
   none; the server answers that message with a snapshot at the current price
   for each of its symbols; disconnect() empties the remembered set and
   sends nothing *)
C24_ResubscribeOnOpen ==
    [][ /\ lastOp'.op = "onopen"
           => LET c == lastOp'.ws
                  remembered == client.subscribedSymbols
              IN  /\ client'.subscribedSymbols = remembered
                  /\ client'.wire[c] =
                        IF remembered = << >> THEN << >>
                        ELSE << [ type |-> "subscribe", shape |-> "data", symbols |-> remembered ] >>
                  /\ Cardinality(Members(remembered)) = Len(remembered)
        /\ (lastOp'.op = "deliver" /\ lastOp'.arg.type = "subscribe")
           => \A symbol \in Members(lastOp'.arg.symbols) :
                LET got == Sent(outbox', lastOp'.ws, "price_update", symbol)
                IN  /\ Cardinality(got) = 1
                    /\ \A i \in got : outbox'[i].price = tickers[symbol].price
                    /\ lastOp'.ws \in subscribers'[symbol]
        /\ lastOp'.op = "disconnect"
           => /\ client'.subscribedSymbols = << >>
              /\ client'.wire = client.wire
              /\ client'.isIntentionallyClosed
              /\ ~client'.reconnectTimeout ]_vars

(* after a drop and a reconnect by the timer, the server received the
   client's subscribe for both remembered symbols and answered with both
   snapshots, at prices a tick had moved *)
C24_Witness ==
    /\ lastOp.op = "deliver"
    /\ lastOp.arg.type = "subscribe"
    /\ Members(lastOp.arg.symbols) = Symbols
    /\ client.resumed
    /\ clock > 0
    /\ \A symbol \in Symbols :
          /\ Cardinality(Sent(outbox, lastOp.ws, "price_update", symbol)) = 1
          /\ Len(observed["updatePrice"][symbol]) > 0

(* C25: get(key) returns the stored data and has(key) returns true exactly
   when an entry for key exists whose age, the time since the set that wrote
   it, does not exceed its TTL; otherwise they return null and false; an
   entry found expired is removed and nothing else changes; set stores the
   data with the current time and the given TTL *)
C25_VisibleWhileFresh ==
    [][ /\ lastOp'.op \in {"get", "has"}
           => LET key == lastOp'.arg.key
                  exists == key \in DOMAIN cache.store
                  fresh == exists /\ cache.now - cache.store[key].timestamp <= cache.store[key].ttl
              IN  /\ lastOp'.arg.result =
                        IF lastOp'.op = "has" THEN fresh
                        ELSE IF fresh THEN cache.store[key].data ELSE Null
                  /\ cache'.now = cache.now
                  /\ cache'.store = IF exists /\ ~fresh THEN MapDelete(cache.store, key)
                                     ELSE cache.store
        /\ lastOp'.op = "set"
           => /\ DOMAIN cache'.store = DOMAIN cache.store \cup {lastOp'.arg.key}
              /\ cache'.store[lastOp'.arg.key] =
                    [ data |-> lastOp'.arg.data, timestamp |-> cache.now, ttl |-> lastOp'.arg.ttl ]
              /\ \A k \in DOMAIN cache.store \ {lastOp'.arg.key} : cache'.store[k] = cache.store[k] ]_vars

(* a get found its entry at an age equal to its TTL and returned the data *)
C25_Witness ==
    /\ lastOp.op = "get"
    /\ lastOp.arg.key \in DOMAIN cache.store
    /\ LET entry == cache.store[lastOp.arg.key]
       IN  /\ lastOp.arg.result = entry.data
           /\ entry.ttl > 0
           /\ cache.now - entry.timestamp = entry.ttl

(* a has found its entry one step past its TTL, answered false and removed it,
   leaving the other key's entry in place *)
C25_WitnessExpired ==
    /\ lastOp.op = "has"
    /\ lastOp.arg.result = FALSE
    /\ lastOp.arg.key \notin DOMAIN cache.store
    /\ DOMAIN cache.store # {}
    /\ cache.now = defaultTTL + TimeStep

(* the entries a listener of 'alert-triggered' left in the trace *)
Seen(tr) == { i \in 1..Len(tr) : tr[i].call = "listener" }

(* C26: when a listener receives an 'alert-triggered' event the alert is
   already inactive with triggeredAt set, the event carries the alert, the
   ticker and the message, and an evaluation of the same ticker started from
   inside the listener does not fire that alert again: within one step every
   alert is the subject of at most one event, and of at most one ever *)
C26_FiredBeforeListeners ==
    [][ /\ \A i \in Seen(trace') :
              /\ ~trace'[i].active
              /\ trace'[i].triggeredAt # NoTime
              /\ i > 1
              /\ trace'[i - 1] = Call("alert-triggered", trace'[i].symbol, trace'[i].price, trace'[i].alert)
              /\ \E a \in AllAlerts' :
                     /\ a.id = trace'[i].alert
                     /\ a.symbol = trace'[i].symbol
                     /\ trace'[i].message = << a.symbol, a.type, a.threshold, trace'[i].price >>
                     /\ trace'[i].price = tickers'[a.symbol].price
              /\ \A j \in Seen(trace') : trace'[j].alert = trace'[i].alert => j = i
        /\ \A id \in DOMAIN fired' :
              /\ fired'[id] <= 1
              /\ Cardinality({ i \in 1..Len(trace') :
                                 trace'[i].call = "alert-triggered" /\ trace'[i].alert = id })
                   = fired'[id] - (IF id \in DOMAIN fired THEN fired[id] ELSE 0) ]_vars

(* one tick fired two alerts of a symbol: the second from the evaluation the
   listener of the first started, the outer loop then passing over it *)
C26_Witness ==
    /\ lastOp.op = "tick"
    /\ Cardinality(Seen(trace)) = 2
    /\ \E i, j, k \in 1..Len(trace) :
           /\ i < j /\ j < k
           /\ trace[i].call = "listener"
           /\ trace[j].call = "checkAlerts" /\ trace[j].symbol = trace[i].symbol
           /\ trace[k].call = "listener" /\ trace[k].symbol = trace[i].symbol
           /\ trace[k].alert # trace[i].alert
    /\ \A id \in DOMAIN fired : fired[id] = 1

(* the symbols the timer callback just taken updated *)
UpdatedSymbols(op) ==
    IF op.op = "tick" /\ DOMAIN op.arg = Symbols
    THEN { symbol \in Symbols : op.arg[symbol] # Skip }
    ELSE {}

(* C27: the evaluation of a price event for a symbol touches only alerts of
   that symbol: every 'alert-triggered' event of a tick names an alert whose
   symbol is the event's, and an alert of a symbol the tick did not update
   keeps every field and its event count, whatever its threshold *)
C27_OtherSymbolsUntouched ==
    [][ lastOp'.op = "tick"
        => /\ \A i \in 1..Len(trace') :
                 trace'[i].call = "alert-triggered"
                 => /\ trace'[i].symbol \in UpdatedSymbols(lastOp')
                    /\ \E a \in AllAlerts : a.id = trace'[i].alert /\ a.symbol = trace'[i].symbol
           /\ \A u \in Users :
                 /\ Len(alerts'[u]) = Len(alerts[u])
                 /\ \A i \in 1..Len(alerts[u]) :
                       alerts[u][i].symbol \notin UpdatedSymbols(lastOp')
                       => /\ alerts'[u][i] = alerts[u][i]
                          /\ fired'[alerts[u][i].id] = fired[alerts[u][i].id] ]_vars

(* a tick updated AAPL alone and fired an AAPL alert, while an armed MSFT
   alert whose condition holds at AAPL's new price stayed armed and unfired *)
C27_Witness ==
    /\ UpdatedSymbols(lastOp) = {"AAPL"}
    /\ \E i \in 1..Len(trace) : trace[i].call = "alert-triggered" /\ trace[i].symbol = "AAPL"
    /\ \E a \in AllAlerts :
           /\ a.symbol = "MSFT"
           /\ shouldTrigger(a, tickers["AAPL"].price)
           /\ a.active
           /\ a.triggeredAt = NoTime
           /\ fired[a.id] = 0

(* C28: the fan-out of a tick for a symbol leaves in the symbol's interest
   set exactly the members that were OPEN, each of which is sent the update
   once in that same step, at the new price; the set of a symbol the tick did
   not update, and every own set, stay as they were *)
C28_PrunedInSameFanout ==
    [][ lastOp'.op = "tick"
        => /\ \A symbol \in UpdatedSymbols(lastOp') :
                 /\ subscribers'[symbol] = { ws \in subscribers[symbol] : Open(ws) }
                 /\ \A ws \in subscribers'[symbol] :
                       \E i \in 1..Len(outbox') :
                          /\ outbox'[i] = Msg(ws, "price_update", symbol, tickers'[symbol].price, 0, << >>)
                          /\ \A j \in 1..Len(outbox') :
                                (outbox'[j].to = ws /\ outbox'[j].symbol = symbol) => j = i
           /\ \A symbol \in Symbols \ UpdatedSymbols(lastOp') :
                 subscribers'[symbol] = subscribers[symbol]
           /\ clients' = clients ]_vars

(* a tick updated AAPL alone while c1, CLOSING, was in the interest sets of
   AAPL and MSFT and c2, OPEN, in AAPL's: c1 left AAPL's set in that tick and
   stayed in MSFT's, and c2 was sent the AAPL update *)
C28_Witness ==
    /\ UpdatedSymbols(lastOp) = {"AAPL"}
    /\ readyState["c1"] = "CLOSING" /\ readyState["c2"] = "OPEN"
    /\ OwnSet("c1") = Symbols
    /\ subscribers["AAPL"] = {"c2"}
    /\ "c1" \in subscribers["MSFT"]
    /\ Len(outbox) = 1
    /\ outbox[1] = Msg("c2", "price_update", "AAPL", tickers["AAPL"].price, 0, << >>)

(* C29: a tick that updates a symbol sets the ticker's previousClose to the
   price it had before the update and computes change and changePercent from
   that previousClose *)
C29_PreviousCloseFollowsPrice ==
    [][ \A symbol \in UpdatedSymbols(lastOp') :
          /\ tickers'[symbol].previousClose = tickers[symbol].price
          /\ tickers'[symbol].change =
                (tickers'[symbol].price - tickers'[symbol].previousClose) * 10000
          /\ tickers'[symbol].changePercent =
                ((tickers'[symbol].price - tickers'[symbol].previousClose) * 10000)
                    \div tickers'[symbol].previousClose ]_vars

(* C30: in one tick a symbol is updated at most once; an updated symbol has
   one update, one fan-out and one price-changed event, in that order and at
   the new price; a skipped symbol keeps its ticker and its interest set and
   has no update, no fan-out, no event and no message *)
C30_OncePerTick ==
    [][ lastOp'.op = "tick"
        => \A symbol \in Symbols :
             LET at(name) == PricesOf(trace', name, symbol)
             IN  IF symbol \in UpdatedSymbols(lastOp')
                 THEN /\ at("updatePrice") = << tickers'[symbol].price >>
                      /\ at("broadcastPriceUpdate") = << tickers'[symbol].price >>
                      /\ at("price-update") = << tickers'[symbol].price >>
                      /\ tickers'[symbol].timestamp = clock'
                      /\ \E i, j, k \in 1..Len(trace') :
                            /\ i < j /\ j < k
                            /\ trace'[i] = Call("updatePrice", symbol, tickers'[symbol].price, 0)
                            /\ trace'[j] = Call("broadcastPriceUpdate", symbol, tickers'[symbol].price, 0)
                            /\ trace'[k] = Call("price-update", symbol, tickers'[symbol].price, 0)
                 ELSE /\ tickers'[symbol] = tickers[symbol]
                      /\ subscribers'[symbol] = subscribers[symbol]
                      /\ \A i \in 1..Len(trace') : trace'[i].symbol # symbol
                      /\ \A i \in 1..Len(outbox') : outbox'[i].symbol # symbol ]_vars

(* the second tick updated AAPL and skipped MSFT while c2, OPEN, was
   subscribed to both: one update, one event and one message, all of AAPL, and
   MSFT still as the first tick left it *)
C30_Witness ==
    /\ clock = 2
    /\ UpdatedSymbols(lastOp) = {"AAPL"}
    /\ readyState["c2"] = "OPEN"
    /\ \A symbol \in Symbols : "c2" \in subscribers[symbol]
    /\ Len(PricesOf(trace, "price-update", "AAPL")) = 1
    /\ PricesOf(trace, "price-update", "MSFT") = << >>
    /\ Sent(outbox, "c2", "price_update", "MSFT") = {}
    /\ Cardinality(Sent(outbox, "c2", "price_update", "AAPL")) = 1
    /\ tickers["AAPL"].timestamp = 2
    /\ tickers["MSFT"].timestamp = 1

(* C31: the history of each symbol is generated by the constructor, before
   any tick: until the first tick the series is complete, each candle opens
   at the close of the one before it, the first at the base price, and the
   ticker's price is the close of the last candle, so that the first tick of
   a symbol computes its price from that close; no later step changes the
   seed or the config the series is computed from *)
C31_SeededBeforeFirstTick ==
    [][ /\ clock = 0
           => \A symbol \in Symbols :
                LET history == historicalData(symbol)
                IN  /\ Len(history) = HistoryLength
                    /\ history[1].open = configs[symbol].basePrice
                    /\ \A i \in 2..Len(history) : history[i].open = history[i - 1].close
                    /\ tickers[symbol].price = history[Len(history)].close
                    /\ tickers[symbol].timestamp = 0
                    /\ symbol \in UpdatedSymbols(lastOp')
                       => tickers'[symbol].price =
                            generateNextPrice(history[Len(history)].close, configs[symbol],
                                              lastOp'.arg[symbol][1], lastOp'.arg[symbol][2])
        /\ seed' = seed
        /\ configs' = configs ]_vars

(* the first tick updated AAPL, whose history has candles that moved, away
   from the last historical close *)
C31_Witness ==
    /\ clock = 1
    /\ "AAPL" \in UpdatedSymbols(lastOp)
    /\ LET history == historicalData("AAPL")
       IN  /\ \E i \in 2..Len(history) :
                  /\ history[i].open = history[i - 1].close
                  /\ history[i].close # history[i].open
                  /\ history[i].open # configs["AAPL"].basePrice
           /\ tickers["AAPL"].price # history[Len(history)].close

(* C32: a step taken while no timer is installed or while the market is
   closed changes no ticker and makes no update, fan-out, emission or
   evaluation and sends no price_update; while no timer is installed no
   callback runs, stopMarketSimulation leaves none installed, and only
   startMarketSimulation installs one *)
C32_QuietWhileStoppedOrClosed ==
    [][ /\ (updateInterval = 0 \/ ~isMarketOpen)
           => /\ tickers' = tickers
              /\ \A i \in 1..Len(trace') : trace'[i].call \notin Stages
              /\ \A i \in 1..Len(outbox') : outbox'[i].type # "price_update"
              /\ observed' = observed
        /\ updateInterval = 0 => lastOp'.op # "tick"
        /\ lastOp'.op = "stop" => updateInterval' = 0
        /\ (updateInterval = 0 /\ updateInterval' > 0) => lastOp'.op = "start" ]_vars

(* after a first tick that updated AAPL the market was closed, and the second
   callback ran and did nothing *)
C32_Witness ==
    /\ clock = 2
    /\ lastOp.op = "tick"
    /\ ~isMarketOpen
    /\ updateInterval > 0
    /\ trace = << >>
    /\ tickers["AAPL"].timestamp = 1
    /\ Len(observed["updatePrice"]["AAPL"]) = 1

(* C33: only the timer callback writes ticker state: a connection, a
   closing, a disconnect, a subscribe or unsubscribe message, the creation,
   deletion or toggle of an alert, the evaluation the test route starts and a
   lookup leave every field of every ticker of both engines as it was *)
C33_OnlyTickWrites ==
    [][ lastOp'.op # "tick"
        => /\ tickers' = tickers
           /\ routeTickers' = routeTickers ]_vars

(* after a tick that updated AAPL, the test route evaluated and fired an
   alert while c1 was subscribed to AAPL *)
C33_Witness ==
    /\ lastOp.op = "testTrigger"
    /\ clock = 1
    /\ tickers["AAPL"].timestamp = 1
    /\ "c1" \in subscribers["AAPL"]
    /\ \E i \in 1..Len(trace) : trace[i].call = "alert-triggered"

(* C34: a ticker value handed out by getTicker keeps the values it had when
   it was handed out: whatever happens later, the holder reads what it read
   then *)
C34_ReadersHoldSnapshots ==
    reader.symbol \in Symbols => readerSees = reader.seen

(* C35: in every state, the one after construction included, each ticker's
   change is its price minus its previousClose and its changePercent is that
   change relative to previousClose *)
C35_ChangeMatchesPrices ==
    \A symbol \in Symbols :
        /\ tickers[symbol].change =
              (tickers[symbol].price - tickers[symbol].previousClose) * 10000
        /\ tickers[symbol].changePercent =
              ((tickers[symbol].price - tickers[symbol].previousClose) * 10000)
                  \div tickers[symbol].previousClose

(* C36: an unsubscribe message of the client, which carries its list under
   data.symbols, takes the connection out of the interest set and the own set
   of every symbol it names *)
C36_ClientUnsubscribeRemoves ==
    [][ (lastOp'.op = "deliver" /\ lastOp'.arg.type = "unsubscribe")
        => \A symbol \in Members(lastOp'.arg.symbols) :
             /\ lastOp'.ws \notin subscribers'[symbol]
             /\ symbol \notin clients'[lastOp'.ws] ]_vars

(* C37: at most one timer drives the engine, whatever the order of the
   start, stop and setUpdateFrequency calls: start leaves one installed and
   changes nothing when one was, stop leaves none, and setUpdateFrequency
   leaves as many as there were, one when running and none when stopped *)
C37_AtMostOneDriver ==
    [][ /\ updateInterval \in {0, 1}
        /\ updateInterval' \in {0, 1}
        /\ lastOp'.op = "start"
           => /\ updateInterval' = 1
              /\ updateFrequency' = updateFrequency
        /\ lastOp'.op = "stop" => updateInterval' = 0
        /\ lastOp'.op = "setUpdateFrequency" => updateInterval' = updateInterval
        /\ lastOp'.op = "tick" => (updateInterval = 1 /\ updateInterval' = 1) ]_vars

(* setUpdateFrequency was called on a running engine after a tick and after
   a stop and a start: one timer is installed, at the new frequency *)
C37_Witness ==
    /\ lastOp.op = "setUpdateFrequency"
    /\ lastOp.arg = 3000
    /\ updateFrequency = 3000
    /\ updateInterval = 1
    /\ clock = 1

(* the ids of the alerts in the store, and a list without the alert of an id *)
StoredIds(as) == UNION { { as[u][i].id : i \in 1..Len(as[u]) } : u \in Users }
Without(userAlerts, id) == SelectSeq(userAlerts, LAMBDA a : a.id # id)

(* C38: a deleteAlert by a user who holds the alert returns true and takes
   exactly that alert out of the user's list, every other alert of every
   user and every event count staying as it was; one for an id nobody holds
   returns false and changes nothing; an alert that is gone stays gone and no
   later step fires it *)
C38_DeletedIsGone ==
    [][ /\ lastOp'.op = "deleteAlert"
           => LET u == lastOp'.ws
                  id == lastOp'.arg
              IN  /\ fired' = fired
                  /\ \A v \in Users \ {u} : alerts'[v] = alerts[v]
                  /\ IF Held(alerts, u, id) # {}
                     THEN /\ deleteAlertReturns(Current, u, id)
                          /\ alerts'[u] = Without(alerts[u], id)
                          /\ Len(alerts'[u]) = Len(alerts[u]) - 1
                          /\ id \notin StoredIds(alerts')
                     ELSE /\ ~deleteAlertReturns(Current, u, id)
                          /\ alerts' = alerts
        /\ \A id \in DOMAIN fired \ StoredIds(alerts) :
              /\ id \notin StoredIds(alerts')
              /\ fired'[id] = fired[id]
              /\ \A i \in 1..Len(trace') : trace'[i].alert # id ]_vars

(* a tick updated AAPL to a price over the threshold and fired the alert in
   the store, after another alert, created before it and never fired, had
   been deleted *)
C38_Witness ==
    /\ lastOp.op = "tick"
    /\ "AAPL" \in UpdatedSymbols(lastOp)
    /\ tickers["AAPL"].price >= TargetPrice["AAPL"]
    /\ DOMAIN fired = 1..2
    /\ StoredIds(alerts) = {2}
    /\ fired = << 0, 1 >>
    /\ \E i \in 1..Len(trace) : trace[i] = Call("alert-triggered", "AAPL", tickers["AAPL"].price, 2)

(* C39: a heartbeat round terminates exactly the sockets whose last ping is
   unanswered, pings every other socket the server holds, and sends nothing;
   a socket that answered is left OPEN by the round; a terminated socket gets
   no further message and its close handler takes it out of every interest
   set *)
C39_HeartbeatTerminatesSilent ==
    [][ /\ lastOp'.op = "heartbeatRound"
           => /\ \A ws \in wssClients :
                    IF heartbeat[ws].ping
                    THEN /\ readyState'[ws] = "CLOSING"
                         /\ ws \in lastOp'.arg
                    ELSE /\ readyState'[ws] = readyState[ws]
                         /\ ws \notin lastOp'.arg
                         /\ Open(ws) => heartbeat'[ws].ping
              /\ \A ws \in Conns \ wssClients : readyState'[ws] = readyState[ws]
              /\ subscribers' = subscribers
              /\ outbox' = << >>
        /\ \A ws \in Conns :
              /\ readyState[ws] = "CLOSING" => \A i \in 1..Len(outbox') : outbox'[i].to # ws
              /\ (lastOp'.op = "close" /\ lastOp'.ws = ws)
                    => \A symbol \in Symbols : ws \notin subscribers'[symbol] ]_vars

(* a round terminated c1, subscribed to AAPL and silent since the round
   before, and left c2, which had answered its ping, OPEN *)
C39_Witness ==
    /\ lastOp.op = "heartbeatRound"
    /\ lastOp.arg = {"c1"}
    /\ readyState["c1"] = "CLOSING" /\ readyState["c2"] = "OPEN"
    /\ "c1" \in subscribers["AAPL"]
    /\ heartbeat["c2"] = [ isAlive |-> "false", ping |-> TRUE ]

(* the sockets of the client that are connecting or open *)
LiveSockets == { c \in Conns : client.sockets[c] \in {"CONNECTING", "OPEN"} }

(* C40: the client holds at most one socket that is connecting or open,
   whatever the order of connect(), disconnect(), the socket callbacks and
   the reconnect timer, and its count of reconnect attempts never passes 5 *)
C40_AtMostOneLiveSocket ==
    /\ Cardinality(LiveSockets) <= 1
    /\ client.reconnectAttempts <= maxReconnectAttempts

====
